---- MODULE Spec2Model ----
(***************************************************************************)
(* Valuation and performance-analytics core of the Cactus Wealth backend.  *)
(*                                                                         *)
(*  - PortfolioBacktestService (services.py 1541-2044): validation, the    *)
(*    cached per-ticker price and dividend waves run with asyncio.gather   *)
(*    on the event loop, the aligned price table and the response.         *)
(*  - PortfolioService (services.py 145-330): get_portfolio_valuation and  *)
(*    create_snapshot_for_portfolio.                                       *)
(*  - DashboardService._calculate_monthly_growth (services.py 764-876).    *)
(*                                                                         *)
(* Units.  Weights are counted in thousandths (1.0 is WeightUnit, the      *)
(* tolerance 0.001 is Tolerance).  A timestamp is a record                 *)
(* [d, tod, tz]: the calendar day (local to tz), the time of day (0 is     *)
(* midnight) and the zone ("naive" when the timestamp carries none).       *)
(* Prices and valuations are counted in thousandths of a dollar, snapshot  *)
(* values (Decimal with two places) in cents, growth in ten-thousandths.   *)
(***************************************************************************)
EXTENDS Integers, Sequences, FiniteSets, TLC

VARIABLES
    queue,        \* the event loop's ready queue (FIFO of callbacks)
    req,          \* per request slot: the BacktestRequest, or NoRequest
    pc,           \* per slot: where perform_backtest is suspended
    redisOn,      \* per slot: self.redis_client is not None
    priceRes,     \* per slot: the price wave's tasks, by position: result and operations
    divRes,       \* per slot: the dividend wave's tasks, by position: result and operations
    outer,        \* per slot: gather's outer future of the current wave
    hist,         \* per slot: hist_data, the aligned price table
    outcome,      \* per slot: what perform_backtest returned or raised
    log,          \* per slot: whether any I/O was issued, whether a cache operation failed
    cache,        \* the Redis store: cache key -> entry
    priceStatus,  \* the provider: yf.download per ticker ("ok", "error", "empty")
    divStatus,    \* the provider: Ticker.dividends per ticker ("ok", "error")
    market,       \* the provider: what stock.history gives per ticker
    snapshots,    \* the portfolio_snapshots table
    lastCall      \* the last PortfolioService / DashboardService call and its result

vars == <<queue, req, pc, redisOn, priceRes, divRes, outer, hist, outcome, log,
          cache, priceStatus, divStatus, market, snapshots, lastCall>>

backtestVars == <<queue, req, pc, redisOn, priceRes, divRes, outer, hist, outcome,
                  log, cache, priceStatus, divStatus>>

kpiVars == <<market, snapshots, lastCall>>

(***************************************************************************)
(* Bounds of the model.                                                    *)
(***************************************************************************)
MaxRequests == 2      \* request slots served by the one event loop
MaxComp == 2          \* longest composition a request carries
MaxBench == 1         \* longest benchmark list a request carries

(***************************************************************************)
(* Helpers on sequences and integers.                                      *)
(***************************************************************************)
Abs(x) == IF x < 0 THEN -x ELSE x

Range(s) == {s[i] : i \in 1..Len(s)}

SeqsUpTo(S, n) == UNION {[1..k -> S] : k \in 0..n}

RECURSIVE SumSeq(_)
SumSeq(s) == IF s = <<>> THEN 0 ELSE Head(s) + SumSeq(Tail(s))

RECURSIVE SetToSortedSeq(_)
SetToSortedSeq(S) ==
    IF S = {} THEN <<>>
    ELSE LET m == CHOOSE x \in S : \A y \in S : x <= y
         IN  <<m>> \o SetToSortedSeq(S \ {m})

RECURSIVE Dedup(_)
\* dict(...) over a list of pairs keeps each key at its first position
Dedup(s) ==
    IF s = <<>> THEN <<>>
    ELSE LET r == Dedup(SubSeq(s, 1, Len(s) - 1))
         IN  IF s[Len(s)] \in Range(r) THEN r ELSE Append(r, s[Len(s)])

(***************************************************************************)
(* The requests: schemas.PortfolioComposition and schemas.BacktestRequest. *)
(***************************************************************************)
Tickers == {"A", "B"}

WeightUnit == 1000    \* the weight 1.0
Tolerance == 1        \* the weight 0.001

WeightChoices == {-500, 499, 500, 502, 1000, 1500}

PortfolioComposition == [ticker : Tickers, weight : WeightChoices]

\* the keys of self.period_mapping
period_mapping ==
    {"1d", "5d", "1mo", "3mo", "6mo", "1y", "2y", "5y", "10y", "ytd", "max"}

RequestedPeriods == {"1mo", "max", "weekly"}

BacktestRequest ==
    [composition : SeqsUpTo(PortfolioComposition, MaxComp),
     benchmarks : SeqsUpTo(Tickers, MaxBench),
     period : RequestedPeriods]

NoRequest == [composition |-> <<>>, benchmarks |-> <<>>, period |-> "none"]

portfolio_tickers(request) ==
    [i \in 1..Len(request.composition) |-> request.composition[i].ticker]

all_tickers(request) == portfolio_tickers(request) \o request.benchmarks

total_weight(request) ==
    SumSeq([i \in 1..Len(request.composition) |-> request.composition[i].weight])

NoError == [kind |-> "none"]

\* perform_backtest without its check of the weights
ValidationErrorNoWeights(request) ==
    IF request.period \notin period_mapping
    THEN [kind |-> "invalid_period"]
    ELSE IF all_tickers(request) = <<>>
    THEN [kind |-> "no_tickers"]
    ELSE NoError

\* the three checks at the head of perform_backtest, in the code's order
ValidationError(request) ==
    IF request.period \notin period_mapping
    THEN [kind |-> "invalid_period"]
    ELSE IF all_tickers(request) = <<>>
    THEN [kind |-> "no_tickers"]
    ELSE IF Abs(total_weight(request) - WeightUnit) > Tolerance
    THEN [kind |-> "weights_sum", got |-> total_weight(request)]
    ELSE NoError

(***************************************************************************)
(* The market data provider (yfinance), seen from the backtest.            *)
(* yf.download(..., interval="1d") yields a date index without zone at     *)
(* midnight; Ticker.dividends yields a zone-aware index.                   *)
(***************************************************************************)
Ts(d, tod, tz) == [d |-> d, tod |-> tod, tz |-> tz]

Point(d, v) == [t |-> Ts(d, 0, "naive"), v |-> v]

\* datetime.now() of the dividend filter: day 100, after midnight
NowTs == Ts(100, 1, "naive")

\* yf.download(ticker, period=period, interval="1d")["Close"] when it has data
HistoryOf(ticker, period) ==
    IF ticker = "A"
    THEN IF period = "max"
         THEN <<Point(60, 90), Point(98, 100), Point(99, 110), Point(100, 99)>>
         ELSE <<Point(98, 100), Point(99, 110), Point(100, 99)>>
    ELSE <<Point(99, 50), Point(100, 55)>>

Reverse(s) == [i \in 1..Len(s) |-> s[Len(s) + 1 - i]]

\* a label of an index of dtype object: the text "YYYY-MM-DD" of a day
DateString(d) == [d |-> d, tod |-> 0, tz |-> "str"]

\* the series a later download gives once the provider has moved the close of
\* the running day (prepost=True) or re-adjusted its history (auto_adjust=True)
RevisedHistoryOf(ticker, period) ==
    [i \in 1..Len(HistoryOf(ticker, period)) |->
        IF i = Len(HistoryOf(ticker, period))
        THEN [t |-> HistoryOf(ticker, period)[i].t,
              v |-> HistoryOf(ticker, period)[i].v + 1]
        ELSE HistoryOf(ticker, period)[i]]

\* what the download gives when it gives data: the series as the provider is
\* expected to deliver it ("ok"), that series after the provider revised it
\* ("revised"), the same rows latest first ("unordered"), the same rows
\* labelled with date strings instead of timestamps ("text"), the last row
\* alone, as for a ticker listed on the last day ("short"), or the first row
\* alone, as for a ticker no longer traded ("halted")
DownloadOf(ticker, period, status) ==
    IF status = "revised" THEN RevisedHistoryOf(ticker, period)
    ELSE IF status = "short"
    THEN <<HistoryOf(ticker, period)[Len(HistoryOf(ticker, period))]>>
    ELSE IF status = "halted" THEN <<HistoryOf(ticker, period)[1]>>
    ELSE IF status = "unordered" THEN Reverse(HistoryOf(ticker, period))
    ELSE IF status = "text"
    THEN [i \in 1..Len(HistoryOf(ticker, period)) |->
             [t |-> DateString(HistoryOf(ticker, period)[i].t.d),
              v |-> HistoryOf(ticker, period)[i].v]]
    ELSE HistoryOf(ticker, period)

\* yf.Ticker(ticker).dividends when the call succeeds
DividendsOf(ticker) ==
    IF ticker = "A"
    THEN <<[t |-> Ts(60, 0, "NY"), v |-> 5], [t |-> Ts(99, 1, "NY"), v |-> 7]>>
    ELSE <<>>

\* period_days of fetch_dividend_data
period_days ==
    [p \in {"1mo", "3mo", "6mo", "1y", "2y", "5y"} |->
        CASE p = "1mo" -> 30 [] p = "3mo" -> 90 [] p = "6mo" -> 180
          [] p = "1y" -> 365 [] p = "2y" -> 730 [] p = "5y" -> 1825]

\* _ensure_timezone_aware: a naive target takes the zone of the reference index
ensure_timezone_aware(target, index_tz) ==
    IF target.tz # "naive" THEN target
    ELSE IF index_tz # "naive" THEN Ts(target.d, target.tod, index_tz)
    ELSE target

\* index >= start, both in the same zone after _ensure_timezone_aware
TsGE(a, b) == a.d > b.d \/ (a.d = b.d /\ a.tod >= b.tod)

\* dividends[dividends.index >= compatible_start_date]
FilterByPeriod(dividends, period) ==
    IF dividends = <<>> \/ period \notin DOMAIN period_days THEN dividends
    ELSE LET start == ensure_timezone_aware(
                          Ts(NowTs.d - period_days[period], NowTs.tod, NowTs.tz),
                          dividends[1].t.tz)
         IN  SelectSeq(dividends, LAMBDA x : TsGE(x.t, start))

(***************************************************************************)
(* The cache: keys and the JSON entries.                                   *)
(***************************************************************************)
\* _generate_cache_key: "yfinance:" + sha256("{data_type}:{ticker}:{period}"),
\* the digest taken as injective
generate_cache_key(ticker, period, data_type) == <<data_type, ticker, period>>

CacheKeys == {generate_cache_key(t, p, ty) :
                 t \in Tickers, p \in period_mapping \cap RequestedPeriods,
                 ty \in {"prices", "dividends"}}

Absent == [kind |-> "absent"]

\* formatting after a conversion to UTC: a zone-aware time past midnight of a
\* western zone can fall on the next UTC day
strftime_utc(ts) == IF ts.tz # "naive" /\ ts.tod > 0 THEN ts.d + 1 ELSE ts.d

\* index.strftime("%Y-%m-%d"): the calendar day, the time of day and zone dropped
strftime(ts) == ts.d

\* pd.to_datetime(date string): midnight of that day, no zone
to_datetime(day) == Ts(day, 0, "naive")

\* {"prices": values.tolist(), "dates": index.strftime(...).tolist()} and the
\* same with "dividends"
Serialize(series) ==
    [kind |-> "entry",
     values |-> [i \in 1..Len(series) |-> series[i].v],
     dates |-> [i \in 1..Len(series) |-> strftime(series[i].t)]]

\* pd.Series(data_dict[...], index=pd.to_datetime(data_dict["dates"]))
Deserialize(entry) ==
    [i \in 1..Len(entry.values) |->
        [t |-> to_datetime(entry.dates[i]), v |-> entry.values[i]]]

CalendarDates(series) == [i \in 1..Len(series) |-> series[i].t.d]

Values(series) == [i \in 1..Len(series) |-> series[i].v]

Labels(series) == [i \in 1..Len(series) |-> series[i].t]

\* isinstance(index, pd.DatetimeIndex), for a sequence of labels
IsDatetimeIndex(labels) == \A i \in 1..Len(labels) : labels[i].tz # "str"

\* index.strftime exists on a DatetimeIndex only
CanFormat(series) == IsDatetimeIndex(Labels(series))

(***************************************************************************)
(* One task of a wave.  g is what redis_client.get does ("ok", "raise",    *)
(* or "undecodable": the bytes returned are no JSON), w what the write     *)
(* does ("ok", "serialize_fail": building the JSON raises, "raise":        *)
(* redis_client.setex raises).  The result names the value returned or the *)
(* exception raised, the entry written (Absent when none is), and the      *)
(* operations issued.                                                      *)
(***************************************************************************)
GetOutcomes == {"ok", "raise", "undecodable"}

SetOutcomes == {"ok", "serialize_fail", "raise"}

TaskPending == [kind |-> "pending"]

TaskOk(ticker, series, hit) ==
    [kind |-> "ok", ticker |-> ticker, series |-> series, hit |-> hit]

TaskExc(ticker) == [kind |-> "exc", ticker |-> ticker]

Ops(gets, fetches, sets) == [gets |-> gets, fetches |-> fetches, sets |-> sets]

\* fault: a cache operation of the task raised (and was caught)
Effect(ret, write, ops, fault) ==
    [ret |-> ret, write |-> write, ops |-> ops, fault |-> fault]

\* the cache read both tasks start with: the entry read, or Absent when the
\* client is None, the read raises, nothing is stored or the bytes do not decode
CacheRead(on, entry, g) ==
    IF on /\ g = "ok" THEN entry ELSE Absent

ReadFault(on, entry, g) ==
    on /\ (g = "raise" \/ (g = "undecodable" /\ entry # Absent))

\* fetch_ticker_data recovering from a provider failure as fetch_dividend_data
\* does, with an empty series
fetch_ticker_data_recovering(on, entry, ticker, period, status, g, w) ==
    LET gets == IF on THEN 1 ELSE 0
        got == CacheRead(on, entry, g)
        rf == ReadFault(on, entry, g)
    IN  IF got # Absent
        THEN Effect(TaskOk(ticker, Deserialize(got), TRUE), Absent,
                    Ops(gets, 0, 0), FALSE)
        ELSE IF status \in {"error", "empty"}
        THEN Effect(TaskOk(ticker, <<>>, FALSE), Absent, Ops(gets, 1, 0), rf)
        ELSE LET close_prices == DownloadOf(ticker, period, status)
                 caching == on /\ close_prices # <<>>
                 wr == IF CanFormat(close_prices) THEN w ELSE "serialize_fail"
             IN  Effect(TaskOk(ticker, close_prices, FALSE),
                        IF caching /\ wr = "ok" THEN Serialize(close_prices)
                        ELSE Absent,
                        Ops(gets, 1,
                            IF caching /\ wr # "serialize_fail" THEN 1 ELSE 0),
                        rf \/ (caching /\ wr # "ok"))

\* fetch_ticker_data without the try around its cache write: the failure of the
\* write reaches the handler of the fetch and leaves the task as a ValueError
fetch_ticker_data_unguarded_write(on, entry, ticker, period, status, g, w) ==
    LET gets == IF on THEN 1 ELSE 0
        got == CacheRead(on, entry, g)
        rf == ReadFault(on, entry, g)
    IN  IF got # Absent
        THEN Effect(TaskOk(ticker, Deserialize(got), TRUE), Absent,
                    Ops(gets, 0, 0), FALSE)
        ELSE IF status \in {"error", "empty"}
        THEN Effect(TaskExc(ticker), Absent, Ops(gets, 1, 0), rf)
        ELSE LET close_prices == DownloadOf(ticker, period, status)
                 caching == on /\ close_prices # <<>>
                 wr == IF CanFormat(close_prices) THEN w ELSE "serialize_fail"
             IN  Effect(IF caching /\ wr # "ok" THEN TaskExc(ticker)
                        ELSE TaskOk(ticker, close_prices, FALSE),
                        IF caching /\ wr = "ok" THEN Serialize(close_prices)
                        ELSE Absent,
                        Ops(gets, 1,
                            IF caching /\ wr # "serialize_fail" THEN 1 ELSE 0),
                        rf \/ (caching /\ wr # "ok"))

\* fetch_ticker_data caching what it got before looking at it, as
\* fetch_dividend_data does: a fetch without data stores an empty entry
fetch_ticker_data_caching_first(on, entry, ticker, period, status, g, w) ==
    LET gets == IF on THEN 1 ELSE 0
        got == CacheRead(on, entry, g)
        rf == ReadFault(on, entry, g)
    IN  IF got # Absent
        THEN Effect(TaskOk(ticker, Deserialize(got), TRUE), Absent,
                    Ops(gets, 0, 0), FALSE)
        ELSE IF status \in {"error", "empty"}
        THEN Effect(TaskExc(ticker),
                    IF on /\ w = "ok" THEN Serialize(<<>>) ELSE Absent,
                    Ops(gets, 1, IF on /\ w # "serialize_fail" THEN 1 ELSE 0),
                    rf \/ (on /\ w # "ok"))
        ELSE LET close_prices == DownloadOf(ticker, period, status)
                 caching == on /\ close_prices # <<>>
                 wr == IF CanFormat(close_prices) THEN w ELSE "serialize_fail"
             IN  Effect(TaskOk(ticker, close_prices, FALSE),
                        IF caching /\ wr = "ok" THEN Serialize(close_prices)
                        ELSE Absent,
                        Ops(gets, 1,
                            IF caching /\ wr # "serialize_fail" THEN 1 ELSE 0),
                        rf \/ (caching /\ wr # "ok"))

\* fetch_ticker_data
fetch_ticker_data(on, entry, ticker, period, status, g, w) ==
    LET gets == IF on THEN 1 ELSE 0
        got == CacheRead(on, entry, g)
        rf == ReadFault(on, entry, g)
    IN  IF got # Absent
        THEN Effect(TaskOk(ticker, Deserialize(got), TRUE), Absent,
                    Ops(gets, 0, 0), FALSE)
        ELSE IF status \in {"error", "empty"}
        THEN \* provider error, or data.empty: ValueError out of the task
             Effect(TaskExc(ticker), Absent, Ops(gets, 1, 0), rf)
        ELSE LET close_prices == DownloadOf(ticker, period, status)
                 caching == on /\ close_prices # <<>>
                 wr == IF CanFormat(close_prices) THEN w ELSE "serialize_fail"
             IN  Effect(TaskOk(ticker, close_prices, FALSE),
                        IF caching /\ wr = "ok" THEN Serialize(close_prices)
                        ELSE Absent,
                        Ops(gets, 1,
                            IF caching /\ wr # "serialize_fail" THEN 1 ELSE 0),
                        rf \/ (caching /\ wr # "ok"))

\* fetch_dividend_data letting a failure of the provider out of the task, as
\* fetch_ticker_data does
fetch_dividend_data_raising(on, entry, ticker, period, status, g, w) ==
    LET gets == IF on THEN 1 ELSE 0
        got == CacheRead(on, entry, g)
        rf == ReadFault(on, entry, g)
    IN  IF got # Absent
        THEN Effect(TaskOk(ticker, Deserialize(got), TRUE), Absent,
                    Ops(gets, 0, 0), FALSE)
        ELSE IF status # "ok"
        THEN Effect(TaskExc(ticker), Absent, Ops(gets, 1, 0), rf)
        ELSE LET dividends == FilterByPeriod(DividendsOf(ticker), period)
             IN  Effect(TaskOk(ticker, dividends, FALSE),
                        IF on /\ w = "ok" THEN Serialize(dividends) ELSE Absent,
                        Ops(gets, 1,
                            IF on /\ w # "serialize_fail" THEN 1 ELSE 0),
                        rf \/ (on /\ w # "ok"))

\* fetch_dividend_data
fetch_dividend_data(on, entry, ticker, period, status, g, w) ==
    LET gets == IF on THEN 1 ELSE 0
        got == CacheRead(on, entry, g)
        rf == ReadFault(on, entry, g)
    IN  IF got # Absent
        THEN Effect(TaskOk(ticker, Deserialize(got), TRUE), Absent,
                    Ops(gets, 0, 0), FALSE)
        ELSE IF status # "ok"
        THEN \* recovered inside the task: an empty series
             Effect(TaskOk(ticker, <<>>, FALSE), Absent, Ops(gets, 1, 0), rf)
        ELSE LET dividends == FilterByPeriod(DividendsOf(ticker), period)
             IN  Effect(TaskOk(ticker, dividends, FALSE),
                        IF on /\ w = "ok" THEN Serialize(dividends) ELSE Absent,
                        Ops(gets, 1,
                            IF on /\ w # "serialize_fail" THEN 1 ELSE 0),
                        rf \/ (on /\ w # "ok"))

(***************************************************************************)
(* The aligned price table and the response.                               *)
(***************************************************************************)
\* dict(results): each ticker at its first position, with its last result
LastResultOf(results, ticker) ==
    LET i == CHOOSE k \in 1..Len(results) :
                 /\ results[k].ret.ticker = ticker
                 /\ \A j \in (k + 1)..Len(results) : results[j].ret.ticker # ticker
    IN  results[i].ret.series

ResultTickers(results) == Dedup([i \in 1..Len(results) |-> results[i].ret.ticker])

DaysOf(series) == {series[i].t.d : i \in 1..Len(series)}

ValueAt(series, day) ==
    LET i == CHOOSE k \in 1..Len(series) :
                 /\ series[k].t.d = day
                 /\ \A j \in 1..(k - 1) : series[j].t.d # day
    IN  series[i].v

EmptyTable == [columns |-> <<>>, index |-> <<>>, val |-> <<>>, raw |-> <<>>]

LabelSet(series) == {series[i].t : i \in 1..Len(series)}

RECURSIVE ConcatLabels(_, _)
ConcatLabels(results, cols) ==
    IF cols = <<>> THEN <<>>
    ELSE Labels(LastResultOf(results, Head(cols)))
             \o ConcatLabels(results, Tail(cols))

\* the index of pd.DataFrame(dict(results)) as the constructor leaves it: the
\* index of the columns when they all carry the same one, else the union of
\* their indexes, sorted when its labels are of one type
RawIndex(results) ==
    LET cols == ResultTickers(results)
        first == Labels(LastResultOf(results, cols[1]))
        all == ConcatLabels(results, cols)
        kinds == {all[i].tz : i \in 1..Len(all)}
        days == SetToSortedSeq({all[i].d : i \in 1..Len(all)})
    IN  IF \A t \in Range(cols) : Labels(LastResultOf(results, t)) = first
        THEN first
        ELSE IF Cardinality(kinds) = 1
        THEN [i \in 1..Len(days) |-> [d |-> days[i], tod |-> 0, tz |-> all[1].tz]]
        ELSE Dedup(all)

\* pd.DataFrame(dict(results)), the conversion of an index that is no
\* DatetimeIndex with pd.to_datetime, sort_index(), dropna(): one column per
\* ticker, the days whose label every column has a price for, in ascending
\* order; raw is the index before the conversion and the sort
CombineResults(results) ==
    LET cols == ResultTickers(results)
        labels == {l \in UNION {LabelSet(LastResultOf(results, t)) : t \in Range(cols)} :
                      \A t \in Range(cols) : l \in LabelSet(LastResultOf(results, t))}
        common == {to_datetime(l.d).d : l \in labels}
    IN  [columns |-> cols,
         index |-> SetToSortedSeq(common),
         val |-> [t \in Range(cols) |->
                     [d \in common |-> ValueAt(LastResultOf(results, t), d)]],
         raw |-> RawIndex(results)]

\* the dividend events matched on the full timestamp: a dividend counts for a
\* date of the table only when its index label equals the label of that date
dividend_events_by_timestamp(day, results) ==
    LET cols == ResultTickers(results)
        paying == SelectSeq(cols, LAMBDA t :
                      to_datetime(day) \in LabelSet(LastResultOf(results, t)))
    IN  [i \in 1..Len(paying) |->
            [ticker |-> paying[i],
             amount |-> ValueAt(LastResultOf(results, paying[i]), day)]]

\* the dividend events _generate_data_points attaches to one date of the table:
\* per ticker of dividend_data, the first dividend of that calendar date
DividendEvents(day, results) ==
    LET cols == ResultTickers(results)
        paying == SelectSeq(cols, LAMBDA t :
                      /\ LastResultOf(results, t) # <<>>
                      /\ day \in DaysOf(LastResultOf(results, t)))
    IN  [i \in 1..Len(paying) |->
            [ticker |-> paying[i],
             amount |-> ValueAt(LastResultOf(results, paying[i]), day)]]

\* _generate_data_points: one entry per date of hist_data.index
generate_data_points(table, portfolio_cumulative, benchmark_returns, results) ==
    [i \in 1..Len(table.index) |->
        [date |-> strftime(to_datetime(table.index[i])),
         portfolio_value |-> portfolio_cumulative[i],
         benchmark_values |->
             [b \in DOMAIN benchmark_returns |-> benchmark_returns[b][i]],
         dividend_events |-> DividendEvents(table.index[i], results)]]

(***************************************************************************)
(* Returns and performance metrics.  The code computes in binary floating  *)
(* point; the model computes the same expressions on exact fractions       *)
(* [n, d] in lowest terms with d > 0, so that its results are the values   *)
(* the floats approximate.  The metrics that need a root (annualized       *)
(* return and volatility, Sharpe ratio) have no fraction and are left out  *)
(* of the metrics record.                                                  *)
(***************************************************************************)
RECURSIVE GCD(_, _)
GCD(a, b) == IF b = 0 THEN a ELSE GCD(b, a % b)

Rat(n, d) ==
    LET g == GCD(Abs(n), Abs(d))
        sign == IF d < 0 THEN -1 ELSE 1
    IN  [n |-> sign * (n \div g), d |-> sign * (d \div g)]

RatAdd(a, b) == Rat(a.n * b.d + b.n * a.d, a.d * b.d)

RatSub(a, b) == Rat(a.n * b.d - b.n * a.d, a.d * b.d)

RatMul(a, b) == Rat(a.n * b.n, a.d * b.d)

RatDiv(a, b) == Rat(a.n * b.d, a.d * b.n)

RatLE(a, b) == a.n * b.d <= b.n * a.d

RatMax(a, b) == IF RatLE(a, b) THEN b ELSE a

RatMin(a, b) == IF RatLE(a, b) THEN a ELSE b

\* hist_data[ticker].pct_change().fillna(0) at position i of the index
pct_change(table, ticker, i) ==
    IF i = 1 THEN Rat(0, 1)
    ELSE Rat(table.val[ticker][table.index[i]] - table.val[ticker][table.index[i - 1]],
             table.val[ticker][table.index[i - 1]])

\* weights = {comp.ticker: comp.weight for comp in composition}
weight_of(composition, ticker) ==
    LET i == CHOOSE k \in 1..Len(composition) :
                 /\ composition[k].ticker = ticker
                 /\ \A j \in (k + 1)..Len(composition) : composition[j].ticker # ticker
    IN  Rat(composition[i].weight, WeightUnit)

RECURSIVE WeightedSum(_, _, _, _)
\* portfolio_daily_returns += asset_returns[ticker] * weights[ticker], per ticker
WeightedSum(table, composition, tickers, i) ==
    IF tickers = <<>> THEN Rat(0, 1)
    ELSE RatAdd(RatMul(pct_change(table, Head(tickers), i),
                       weight_of(composition, Head(tickers))),
                WeightedSum(table, composition, Tail(tickers), i))

\* _calculate_portfolio_daily_returns, for tickers listed once each
calculate_portfolio_daily_returns(table, composition, tickers) ==
    [i \in 1..Len(table.index) |-> WeightedSum(table, composition, tickers, i)]

RECURSIVE prod(_)
\* (1 + daily_returns).prod()
prod(daily_returns) ==
    IF daily_returns = <<>> THEN Rat(1, 1)
    ELSE RatMul(RatAdd(Rat(1, 1), Head(daily_returns)), prod(Tail(daily_returns)))

RECURSIVE cumprod(_)
\* (1 + daily_returns).cumprod()
cumprod(daily_returns) ==
    IF daily_returns = <<>> THEN <<>>
    ELSE LET before == cumprod(SubSeq(daily_returns, 1, Len(daily_returns) - 1))
             last == RatAdd(Rat(1, 1), daily_returns[Len(daily_returns)])
         IN  Append(before,
                    IF before = <<>> THEN last
                    ELSE RatMul(before[Len(before)], last))

\* the cumulative product alone, not scaled by the start value
cumulative_unscaled(daily_returns, start_value) ==
    [i \in 1..Len(daily_returns) |-> cumprod(daily_returns)[i]]

\* _calculate_cumulative_returns
calculate_cumulative_returns(daily_returns, start_value) ==
    [i \in 1..Len(daily_returns) |->
        RatMul(cumprod(daily_returns)[i], Rat(start_value, 1))]

\* _calculate_benchmark_returns: per benchmark that is a column of the table,
\* the cumulative series of its percentage changes, started at 100
calculate_benchmark_returns(table, benchmarks) ==
    [b \in Range(benchmarks) \cap Range(table.columns) |->
        calculate_cumulative_returns(
            [i \in 1..Len(table.index) |-> pct_change(table, b, i)], 100)]

\* the drawdown measured against the first value of the series instead of the
\* highest value so far
running_max_from_start(cumulative, k) == cumulative[1]

RECURSIVE running_max(_, _)
\* cumulative_returns.expanding().max() at position k
running_max(cumulative, k) ==
    IF k = 1 THEN cumulative[1]
    ELSE RatMax(running_max(cumulative, k - 1), cumulative[k])

\* (cumulative_returns - running_max) / running_max at position k
drawdown(cumulative, k) ==
    RatDiv(RatSub(cumulative[k], running_max(cumulative, k)),
           running_max(cumulative, k))

RECURSIVE MinUpTo(_, _)
\* drawdowns.min()
MinUpTo(cumulative, k) ==
    IF k = 1 THEN drawdown(cumulative, 1)
    ELSE RatMin(MinUpTo(cumulative, k - 1), drawdown(cumulative, k))

RECURSIVE SumReturns(_)
SumReturns(daily_returns) ==
    IF daily_returns = <<>> THEN Rat(0, 1)
    ELSE RatAdd(Head(daily_returns), SumReturns(Tail(daily_returns)))

\* total_return as the sum of the daily returns, without compounding
total_return_by_sum(daily_returns) == SumReturns(daily_returns)

\* total_return = (1 + daily_returns).prod() - 1
total_return(daily_returns) == RatSub(prod(daily_returns), Rat(1, 1))

\* _calculate_performance_metrics_corrected, the metrics that are fractions
calculate_performance_metrics_corrected(daily_returns) ==
    IF Len(daily_returns) < 2 THEN [status |-> "error", kind |-> "insufficient_data"]
    ELSE [status |-> "ok",
          total_return |-> total_return(daily_returns),
          max_drawdown |->
              MinUpTo(calculate_cumulative_returns(daily_returns, 1),
                      Len(daily_returns)),
          start_value |-> Rat(100, 1),
          end_value |-> RatMul(Rat(100, 1),
                               RatAdd(Rat(1, 1), total_return(daily_returns))),
          trading_days |-> Len(daily_returns)]

HasDuplicates(s) == \E i, j \in 1..Len(s) : i < j /\ s[i] = s[j]

NoOutcome == [status |-> "none"]

Raised(kind, detail) == [status |-> "error", kind |-> kind, detail |-> detail]

\* perform_backtest from the return of the dividend wave to its own return:
\* _calculate_portfolio_daily_returns adds asset_returns[ticker], a two-column
\* frame when the ticker is listed twice, to a Series, which raises;
\* _calculate_performance_metrics_corrected raises under two observations
Respond(request, table, results) ==
    IF HasDuplicates(portfolio_tickers(request))
    THEN Raised("returns", portfolio_tickers(request))
    ELSE IF Len(table.index) < 2
    THEN Raised("insufficient_data", <<>>)
    ELSE LET portfolio_daily_returns ==
                 calculate_portfolio_daily_returns(table, request.composition,
                                                   portfolio_tickers(request))
             portfolio_cumulative ==
                 calculate_cumulative_returns(portfolio_daily_returns, 100)
         IN  [status |-> "ok",
              start_date |-> strftime(to_datetime(table.index[1])),
              end_date |-> strftime(to_datetime(table.index[Len(table.index)])),
              portfolio_composition |-> request.composition,
              benchmarks |-> request.benchmarks,
              data_points |->
                  generate_data_points(
                      table, portfolio_cumulative,
                      calculate_benchmark_returns(table, request.benchmarks),
                      results),
              performance_metrics |->
                  calculate_performance_metrics_corrected(portfolio_daily_returns),
              trading_days |-> Len(table.index)]

(***************************************************************************)
(* The event loop.  A request is served by one asyncio task; its           *)
(* perform_backtest coroutine runs until it awaits a gather.  gather       *)
(* wraps every fetch coroutine in a task (loop.call_soon of its first      *)
(* step); a fetch coroutine awaits nothing, so its task runs to its end in *)
(* that one step and then schedules gather's _done_callback; the callback  *)
(* that completes the outer future schedules the wake-up of the awaiting   *)
(* coroutine.  The ready queue is served in FIFO order.                    *)
(***************************************************************************)
Slots == 1..MaxRequests

Callback(kind, r, i) == [kind |-> kind, r |-> r, i |-> i]

NoGather == [state |-> "none", nfinished |-> 0, exc |-> ""]

PendingGather == [state |-> "pending", nfinished |-> 0, exc |-> ""]

PendingTasks(n) == [i \in 1..n |-> [ret |-> TaskPending, ops |-> Ops(0, 0, 0)]]

NoLog == [io |-> FALSE, faulted |-> FALSE]

\* what one task adds to the record of its request
Logged(l, e) ==
    [io |-> l.io \/ e.ops.gets + e.ops.fetches + e.ops.sets > 0,
     faulted |-> l.faulted \/ e.fault]

\* tasks = [fetch(ticker) for ticker in tickers]: one task per list position
SpawnWave(q, kind, r, n) == q \o [i \in 1..n |-> Callback(kind, r, i)]

HeadIs(kind) == queue # <<>> /\ Head(queue).kind = kind

BacktestInit ==
    /\ queue = <<>>
    /\ req = [r \in Slots |-> NoRequest]
    /\ pc = [r \in Slots |-> "idle"]
    /\ redisOn = [r \in Slots |-> FALSE]
    /\ priceRes = [r \in Slots |-> <<>>]
    /\ divRes = [r \in Slots |-> <<>>]
    /\ outer = [r \in Slots |-> NoGather]
    /\ hist = [r \in Slots |-> EmptyTable]
    /\ outcome = [r \in Slots |-> NoOutcome]
    /\ log = [r \in Slots |-> NoLog]
    /\ cache = [k \in CacheKeys |-> Absent]

\* the endpoint backtest_portfolio is called: the request's task is scheduled
Arrive(r, requests) ==
    /\ pc[r] = "idle"
    /\ \A q \in Slots : q < r => pc[q] # "idle"
    /\ \E request \in requests : req' = [req EXCEPT ![r] = request]
    /\ pc' = [pc EXCEPT ![r] = "queued"]
    /\ queue' = Append(queue, Callback("start", r, 0))
    /\ UNCHANGED <<redisOn, priceRes, divRes, outer, hist, outcome, log, cache,
                   priceStatus, divStatus>>

\* PortfolioBacktestService() and perform_backtest up to its first await
StartRequest ==
    /\ HeadIs("start")
    /\ LET r == Head(queue).r
           err == ValidationError(req[r])
       IN  /\ \E on \in BOOLEAN : redisOn' = [redisOn EXCEPT ![r] = on]
           /\ IF err # NoError
              THEN /\ outcome' = [outcome EXCEPT ![r] = Raised("validation", err)]
                   /\ pc' = [pc EXCEPT ![r] = "done"]
                   /\ queue' = Tail(queue)
                   /\ UNCHANGED <<priceRes, outer>>
              ELSE /\ priceRes' = [priceRes EXCEPT
                                      ![r] = PendingTasks(Len(all_tickers(req[r])))]
                   /\ outer' = [outer EXCEPT ![r] = PendingGather]
                   /\ pc' = [pc EXCEPT ![r] = "prices"]
                   /\ queue' = SpawnWave(Tail(queue), "price_task", r,
                                         Len(all_tickers(req[r])))
                   /\ UNCHANGED outcome
    /\ UNCHANGED <<req, divRes, hist, log, cache, priceStatus, divStatus>>

\* one fetch_ticker_data task, run to its end; G and W are the behaviours of the
\* cache client the specification allows
RunPriceTask(G, W) ==
    /\ HeadIs("price_task")
    /\ LET r == Head(queue).r
           i == Head(queue).i
           ticker == all_tickers(req[r])[i]
           key == generate_cache_key(ticker, req[r].period, "prices")
       IN  \E g \in G, w \in W :
               LET e == fetch_ticker_data(redisOn[r], cache[key], ticker,
                                          req[r].period, priceStatus[ticker], g, w)
               IN  /\ priceRes' = [priceRes EXCEPT
                                      ![r][i] = [ret |-> e.ret, ops |-> e.ops]]
                   /\ log' = [log EXCEPT ![r] = Logged(log[r], e)]
                   /\ cache' = IF e.write # Absent
                               THEN [cache EXCEPT ![key] = e.write]
                               ELSE cache
                   /\ queue' = Append(Tail(queue), Callback("price_done", r, i))
    /\ UNCHANGED <<req, pc, redisOn, divRes, outer, hist, outcome,
                   priceStatus, divStatus>>

\* one fetch_dividend_data task, run to its end
RunDividendTask(G, W) ==
    /\ HeadIs("div_task")
    /\ LET r == Head(queue).r
           i == Head(queue).i
           ticker == all_tickers(req[r])[i]
           key == generate_cache_key(ticker, req[r].period, "dividends")
       IN  \E g \in G, w \in W :
               LET e == fetch_dividend_data(redisOn[r], cache[key], ticker,
                                            req[r].period, divStatus[ticker], g, w)
               IN  /\ divRes' = [divRes EXCEPT
                                    ![r][i] = [ret |-> e.ret, ops |-> e.ops]]
                   /\ log' = [log EXCEPT ![r] = Logged(log[r], e)]
                   /\ cache' = IF e.write # Absent
                               THEN [cache EXCEPT ![key] = e.write]
                               ELSE cache
                   /\ queue' = Append(Tail(queue), Callback("div_done", r, i))
    /\ UNCHANGED <<req, pc, redisOn, priceRes, outer, hist, outcome,
                   priceStatus, divStatus>>

\* gather(..., return_exceptions=True): an exception counts as a result
gather_return_exceptions(o, results, i) ==
    LET n == o.nfinished + 1
    IN  IF o.state # "pending" THEN [o EXCEPT !.nfinished = n]
        ELSE IF n = Len(results)
        THEN [state |-> "result", nfinished |-> n, exc |-> ""]
        ELSE [o EXCEPT !.nfinished = n]

\* asyncio.gather's _done_callback for the task at position i of the wave:
\* the first exception completes the outer future at once, the last result
\* completes it with the list of results
gather_done_callback(o, results, i) ==
    LET n == o.nfinished + 1
    IN  IF o.state # "pending" THEN [o EXCEPT !.nfinished = n]
        ELSE IF results[i].ret.kind = "exc"
        THEN [state |-> "exception", nfinished |-> n, exc |-> results[i].ret.ticker]
        ELSE IF n = Len(results)
        THEN [state |-> "result", nfinished |-> n, exc |-> ""]
        ELSE [o EXCEPT !.nfinished = n]

DoneCallback(kind, results, wake) ==
    /\ HeadIs(kind)
    /\ LET r == Head(queue).r
           o == gather_done_callback(outer[r], results[r], Head(queue).i)
       IN  /\ outer' = [outer EXCEPT ![r] = o]
           /\ queue' = IF outer[r].state = "pending" /\ o.state # "pending"
                       THEN Append(Tail(queue), Callback(wake, r, 0))
                       ELSE Tail(queue)
    /\ UNCHANGED <<req, pc, redisOn, priceRes, divRes, hist, outcome, log, cache,
                   priceStatus, divStatus>>

PriceDone == DoneCallback("price_done", priceRes, "wake_prices")

DividendDone == DoneCallback("div_done", divRes, "wake_divs")

\* perform_backtest resumes after the price wave: the failure is re-raised, or
\* the table is built and, unless it is empty, the dividend wave is started;
\* the results of the wave are locals of _download_historical_data_cached
WakeAfterPrices ==
    /\ HeadIs("wake_prices")
    /\ LET r == Head(queue).r
           table == CombineResults(priceRes[r])
       IN  /\ priceRes' = [priceRes EXCEPT ![r] = <<>>]
           /\ queue' = IF outer[r].state = "result" /\ table.index # <<>>
                       THEN SpawnWave(Tail(queue), "div_task", r,
                                      Len(all_tickers(req[r])))
                       ELSE Tail(queue)
           /\ IF outer[r].state = "exception"
              THEN /\ outcome' = [outcome EXCEPT ![r] = Raised("data", outer[r].exc)]
                   /\ pc' = [pc EXCEPT ![r] = "done"]
                   /\ outer' = [outer EXCEPT ![r] = NoGather]
                   /\ UNCHANGED <<hist, divRes>>
              ELSE IF table.index = <<>>
              THEN /\ hist' = [hist EXCEPT ![r] = table]
                   /\ outcome' = [outcome EXCEPT ![r] = Raised("no_data", <<>>)]
                   /\ pc' = [pc EXCEPT ![r] = "done"]
                   /\ outer' = [outer EXCEPT ![r] = NoGather]
                   /\ UNCHANGED divRes
              ELSE /\ hist' = [hist EXCEPT ![r] = table]
                   /\ divRes' = [divRes EXCEPT
                                    ![r] = PendingTasks(Len(all_tickers(req[r])))]
                   /\ outer' = [outer EXCEPT ![r] = PendingGather]
                   /\ pc' = [pc EXCEPT ![r] = "dividends"]
                   /\ UNCHANGED outcome
    /\ UNCHANGED <<req, redisOn, log, cache, priceStatus, divStatus>>

\* perform_backtest resumes after the dividend wave and runs to its return
WakeAfterDividends ==
    /\ HeadIs("wake_divs")
    /\ LET r == Head(queue).r
       IN  /\ outcome' = [outcome EXCEPT ![r] =
                             IF outer[r].state = "exception"
                             THEN Raised("data", outer[r].exc)
                             ELSE Respond(req[r], hist[r], divRes[r])]
           /\ pc' = [pc EXCEPT ![r] = "done"]
           /\ queue' = Tail(queue)
           /\ outer' = [outer EXCEPT ![r] = NoGather]
           /\ divRes' = [divRes EXCEPT ![r] = <<>>]
    /\ UNCHANGED <<req, redisOn, priceRes, hist, log, cache, priceStatus, divStatus>>

\* the endpoint returns the response (or the HTTP error): the slot is free again
Deliver(r) ==
    /\ pc[r] = "done"
    /\ req' = [req EXCEPT ![r] = NoRequest]
    /\ pc' = [pc EXCEPT ![r] = "idle"]
    /\ redisOn' = [redisOn EXCEPT ![r] = FALSE]
    /\ hist' = [hist EXCEPT ![r] = EmptyTable]
    /\ outcome' = [outcome EXCEPT ![r] = NoOutcome]
    /\ log' = [log EXCEPT ![r] = NoLog]
    /\ UNCHANGED <<queue, priceRes, divRes, outer, cache, priceStatus, divStatus>>

\* the 24 h TTL of an entry runs out
Expire(k) ==
    /\ cache[k] # Absent
    /\ cache' = [cache EXCEPT ![k] = Absent]
    /\ UNCHANGED <<queue, req, pc, redisOn, priceRes, divRes, outer, hist,
                   outcome, log, priceStatus, divStatus>>

LoopStep(G, W) ==
    \/ StartRequest
    \/ RunPriceTask(G, W)
    \/ PriceDone
    \/ WakeAfterPrices
    \/ RunDividendTask(G, W)
    \/ DividendDone
    \/ WakeAfterDividends

(***************************************************************************)
(* Spec: the backtest service serving one request after another, with      *)
(* every behaviour of the provider and of the cache client.                *)
(***************************************************************************)
KpiIdle ==
    /\ market = <<>>
    /\ snapshots = <<>>
    /\ lastCall = <<>>

Comp1(t, w) == <<[ticker |-> t, weight |-> w]>>

Comp2(t, w, u, x) == <<[ticker |-> t, weight |-> w], [ticker |-> u, weight |-> x]>>

\* accepted requests over one and over two tickers, with and without a
\* benchmark, over one month, and over the whole history for the single ticker
MainRequests ==
    {q \in BacktestRequest :
        /\ q.composition \in {Comp1("A", 1000), Comp2("A", 500, "B", 500)}
        /\ q.benchmarks \in {<<>>, <<"B">>}
        /\ \/ q.period = "1mo"
           \/ q.period = "max" /\ Len(all_tickers(q)) = 1}

Init ==
    /\ BacktestInit
    /\ priceStatus \in [Tickers -> {"ok", "error", "empty"}]
    /\ divStatus \in [Tickers -> {"ok", "error"}]
    /\ KpiIdle

Next ==
    \/ Arrive(1, MainRequests) /\ UNCHANGED kpiVars
    \/ LoopStep(GetOutcomes, SetOutcomes) /\ UNCHANGED kpiVars
    \/ Deliver(1) /\ UNCHANGED kpiVars
    \/ \E k \in CacheKeys : Expire(k) /\ UNCHANGED kpiVars

Spec == Init /\ [][Next]_vars

(***************************************************************************)
(* Properties of the backtest under Spec.                                  *)
(***************************************************************************)
Served(r) == pc[r] = "done"

FetchSet(r) == Range(all_tickers(req[r]))

FailingTickers(r) == {t \in FetchSet(r) : priceStatus[t] \in {"error", "empty"}}

\* C1: a backtest that passes validation and has a ticker in its fetch set whose
\* price series cannot be fetched (provider error or empty data) ends with the
\* data retrieval error of such a ticker and never with a response; a response
\* is built only from a table that has a column for every ticker of the fetch set.
C1_FailFastOnPriceFailure ==
    \A r \in Slots :
        /\ (Served(r) /\ ValidationError(req[r]) = NoError /\ FailingTickers(r) # {})
               => /\ outcome[r].status = "error"
                  /\ outcome[r].kind = "data"
                  /\ outcome[r].detail \in FailingTickers(r)
        /\ outcome[r].status = "ok"
               => /\ FailingTickers(r) = {}
                  /\ Range(hist[r].columns) = FetchSet(r)

\* two tickers are fetched, one fails and the other does not: the backtest raised
C1_Witness ==
    \E r \in Slots :
        /\ Served(r)
        /\ Cardinality(FetchSet(r)) = 2
        /\ Cardinality(FailingTickers(r)) = 1
        /\ outcome[r].status = "error"
        /\ outcome[r].kind = "data"

\* the tasks of the price wave run with self.redis_client = None
UncachedPrices(request) ==
    [i \in 1..Len(all_tickers(request)) |->
        LET e == fetch_ticker_data(FALSE, Absent, all_tickers(request)[i],
                                   request.period,
                                   priceStatus[all_tickers(request)[i]], "ok", "ok")
        IN  [ret |-> e.ret, ops |-> e.ops]]

\* the tasks of the dividend wave run with self.redis_client = None
UncachedDividends(request) ==
    [i \in 1..Len(all_tickers(request)) |->
        LET e == fetch_dividend_data(FALSE, Absent, all_tickers(request)[i],
                                     request.period,
                                     divStatus[all_tickers(request)[i]], "ok", "ok")
        IN  [ret |-> e.ret, ops |-> e.ops]]

FirstException(results) ==
    LET i == CHOOSE k \in 1..Len(results) :
                 /\ results[k].ret.kind = "exc"
                 /\ \A j \in 1..(k - 1) : results[j].ret.kind # "exc"
    IN  results[i].ret.ticker

\* what perform_backtest gives for the request on the provider's data when no
\* cache exists at all
UncachedOutcome(request) ==
    LET prices == UncachedPrices(request)
        dividends == UncachedDividends(request)
    IN  IF ValidationError(request) # NoError
        THEN Raised("validation", ValidationError(request))
        ELSE IF \E i \in 1..Len(prices) : prices[i].ret.kind = "exc"
        THEN Raised("data", FirstException(prices))
        ELSE IF CombineResults(prices).index = <<>>
        THEN Raised("no_data", <<>>)
        ELSE Respond(request, CombineResults(prices), dividends)

FetchedFor(key) ==
    IF key[1] = "prices" THEN HistoryOf(key[2], key[3])
    ELSE FilterByPeriod(DividendsOf(key[2]), key[3])

\* the task reading the entry of the key on a healthy cache
ReadBack(key) ==
    IF key[1] = "prices"
    THEN fetch_ticker_data(TRUE, cache[key], key[2], key[3],
                           priceStatus[key[2]], "ok", "ok")
    ELSE fetch_dividend_data(TRUE, cache[key], key[2], key[3],
                             divStatus[key[2]], "ok", "ok")

\* C6: every entry the cache holds was written from a fetched series, and the task
\* that reads it back within the TTL returns a series with the calendar dates and
\* the values of the fetched series, in order, without a provider fetch.
C6_CacheRoundTrip ==
    \A key \in CacheKeys :
        cache[key] # Absent
            => /\ ReadBack(key).ret.kind = "ok"
               /\ ReadBack(key).ret.hit
               /\ ReadBack(key).ops.fetches = 0
               /\ CalendarDates(ReadBack(key).ret.series)
                      = CalendarDates(FetchedFor(key))
               /\ Values(ReadBack(key).ret.series) = Values(FetchedFor(key))

\* the cache holds a dividend entry with a date, written from a zone-aware series
\* with a time of day, and a task of a request has been served from the cache
C6_Witness ==
    /\ \E key \in CacheKeys :
           /\ key[1] = "dividends"
           /\ cache[key] # Absent
           /\ cache[key].dates # <<>>
           /\ \E i \in 1..Len(FetchedFor(key)) : FetchedFor(key)[i].t.tod # 0
    /\ \E r \in Slots : \E i \in 1..Len(divRes[r]) :
           /\ divRes[r][i].ret.kind = "ok"
           /\ divRes[r][i].ret.hit
           /\ divRes[r][i].ret.series # <<>>

\* the tickers the error of a failed backtest names: the message of the
\* ValueError carries the ticker of the one task whose exception gather raised
NamedTickers(r) ==
    IF outcome[r].status = "error" /\ outcome[r].kind = "data"
    THEN {outcome[r].detail}
    ELSE {}

\* C12: a backtest that passes validation and has tickers in its fetch set
\* without price history ends with an error that names exactly those tickers,
\* one or several, and never with a response built from the other tickers.
C12_ErrorNamesAllOffenders ==
    \A r \in Slots :
        (Served(r) /\ ValidationError(req[r]) = NoError /\ FailingTickers(r) # {})
            => /\ outcome[r].status = "error"
               /\ NamedTickers(r) = FailingTickers(r)

\* the dividends of a ticker the backtest of a request works with: what the
\* provider has within the period, nothing when the provider call fails
DividendData(ticker, period) ==
    IF divStatus[ticker] = "ok" THEN FilterByPeriod(DividendsOf(ticker), period)
    ELSE <<>>

\* the dividends of the ticker whose ex-date falls on the calendar day
PaidOn(ticker, period, day) ==
    {x \in Range(DividendData(ticker, period)) : x.t.d = day}

EventsOf(point, ticker) == {e \in Range(point.dividend_events) : e.ticker = ticker}

\* C15: in every response, the data point of date D carries the dividend event
\* (ticker, amount) exactly when the ticker has a dividend of that amount whose
\* ex-date has the calendar date D, whatever time of day and zone the dividend
\* timestamp carries; the price index is at midnight without zone.
C15_DividendsMatchByCalendarDate ==
    \A r \in Slots :
        outcome[r].status = "ok"
            => \A i \in 1..Len(outcome[r].data_points) : \A t \in FetchSet(r) :
                   LET point == outcome[r].data_points[i]
                       paid == PaidOn(t, req[r].period, hist[r].index[i])
                   IN  /\ point.date = hist[r].index[i]
                       /\ \A e \in EventsOf(point, t) :
                              \E x \in paid : x.v = e.amount
                       /\ \A x \in paid :
                              \E e \in EventsOf(point, t) : e.amount = x.v

\* a response carries, on a date of its price index, the event of a dividend
\* whose timestamp has a time of day past midnight and a zone
C15_Witness ==
    \E r \in Slots :
        /\ outcome[r].status = "ok"
        /\ \E i \in 1..Len(outcome[r].data_points) : \E t \in FetchSet(r) :
               /\ EventsOf(outcome[r].data_points[i], t) # {}
               /\ \E x \in PaidOn(t, req[r].period, hist[r].index[i]) :
                      x.t.tod # 0 /\ x.t.tz # "naive"

\* the tasks of the dividend wave on a provider that serves every ticker
FetchedDividends(request) ==
    [i \in 1..Len(all_tickers(request)) |->
        [ret |-> TaskOk(all_tickers(request)[i],
                        FilterByPeriod(DividendsOf(all_tickers(request)[i]),
                                       request.period),
                        FALSE),
         ops |-> Ops(0, 1, 0)]]

\* what perform_backtest gives for the request when every dividend fetch succeeds
OutcomeWithDividends(request) ==
    LET prices == UncachedPrices(request)
    IN  IF ValidationError(request) # NoError
        THEN Raised("validation", ValidationError(request))
        ELSE IF \E i \in 1..Len(prices) : prices[i].ret.kind = "exc"
        THEN Raised("data", FirstException(prices))
        ELSE IF CombineResults(prices).index = <<>>
        THEN Raised("no_data", <<>>)
        ELSE Respond(request, CombineResults(prices), FetchedDividends(request))

DividendFailures(r) == {t \in FetchSet(r) : divStatus[t] # "ok"}

\* C27: a failure fetching a ticker's dividends does not abort the backtest: the
\* task recovers and returns an empty series for the ticker, the dividend wave
\* completes with a result, and the backtest ends as it ends when every
\* dividend fetch succeeds, with the same performance metrics.
C27_DividendFailureRecovered ==
    \A r \in Slots :
        /\ \A i \in 1..Len(divRes[r]) :
               /\ divRes[r][i].ret.kind # "exc"
               /\ (/\ divRes[r][i].ret.kind = "ok"
                   /\ ~divRes[r][i].ret.hit
                   /\ divRes[r][i].ret.ticker \in DividendFailures(r))
                      => divRes[r][i].ret.series = <<>>
        /\ pc[r] = "dividends" => outer[r].state # "exception"
        /\ Served(r)
               => /\ outcome[r].status = OutcomeWithDividends(req[r]).status
                  /\ outcome[r].status = "ok"
                         => outcome[r].performance_metrics
                                = OutcomeWithDividends(req[r]).performance_metrics

\* a backtest without cache whose dividend fetch failed for a ticker returned a
\* response with metrics, and none of its data points has a dividend
C27_Witness ==
    \E r \in Slots :
        /\ Served(r)
        /\ ~redisOn[r]
        /\ DividendFailures(r) # {}
        /\ outcome[r].status = "ok"
        /\ outcome[r].performance_metrics.status = "ok"
        /\ \A i \in 1..Len(outcome[r].data_points) :
               \A t \in DividendFailures(r) :
                   \A e \in Range(outcome[r].data_points[i].dividend_events) :
                       e.ticker # t

\* C23: the fetch set is the union of the composition's tickers and the
\* benchmarks, and each wave has exactly one task per distinct ticker of it: a
\* ticker named in the composition and in the benchmarks, or twice in the
\* composition, is fetched and written to the cache once per wave.
C23_OneTaskPerDistinctTicker ==
    \A r \in Slots :
        /\ priceRes[r] # <<>>
               => /\ Len(priceRes[r]) = Cardinality(FetchSet(r))
                  /\ \A t \in FetchSet(r) :
                         Cardinality({i \in 1..Len(priceRes[r]) :
                                         /\ all_tickers(req[r])[i] = t
                                         /\ priceRes[r][i].ops.fetches > 0}) <= 1
        /\ divRes[r] # <<>> => Len(divRes[r]) = Cardinality(FetchSet(r))

(***************************************************************************)
(* PortfolioService and DashboardService over the database.                *)
(***************************************************************************)
MaxSnapshots == 2     \* rows of portfolio_snapshots

\* users: 1 is the administrator, 2 to 4 are advisors; 4 has no client
Users == 1..4

IsAdmin(user) == user = 1

\* portfolios 1 and 2 exist; 9 is an id no portfolio has
PortfolioIds == {1, 2}

RequestedPortfolioIds == PortfolioIds \cup {9}

\* Portfolio -> Client -> owner_id
OwnerOf(pid) == IF pid = 1 THEN 2 ELSE 3

\* the rows of positions: portfolio 1 holds two assets, portfolio 2 none
PositionsOf(pid) ==
    IF pid = 1
    THEN <<[ticker |-> "A", quantity |-> 2, purchase_price |-> 100000],
           [ticker |-> "B", quantity |-> 1, purchase_price |-> 50000]>>
    ELSE <<>>

Quote(kind, v) == [kind |-> kind, v |-> v]

\* stock.history(period="5d"): the call fails, or its last close
Quotes == {Quote("error", 0), Quote("close", 0), Quote("close", 110505)}

Return(value) == [kind |-> "return", value |-> value, exc |-> ""]

Raise(exc) == [kind |-> "raise", value |-> [type |-> "none"], exc |-> exc]

NoneValue == [type |-> "None"]

Number(x) == [type |-> "float", x |-> x]

\* n / d cut to the integer below instead of rounded to the nearest one
round_down(n, d) == n \div d

\* round(n / d) to the nearest integer, ties to the even one (Python's round)
RoundHalfEven(n, d) ==
    LET q == n \div d
        r == n - q * d
    IN  IF 2 * r > d THEN q + 1
        ELSE IF 2 * r < d THEN q
        ELSE IF q % 2 = 0 THEN q ELSE q + 1

\* round(x, 2) of an amount in thousandths
Round2(x) == RoundHalfEven(x, 10) * 10

\* YahooFinanceProvider.get_current_price
get_current_price(quote) ==
    IF quote.kind = "error" THEN Raise("Exception")
    ELSE IF quote.v <= 0 THEN Raise("ValueError")
    ELSE Return(Number(quote.v))

\* portfolio_repo.get_positions_for_portfolio: PortfolioRepository and its
\* base class define no such method, the attribute lookup raises
get_positions_for_portfolio(pid) == Raise("AttributeError")

RECURSIVE ValuePositions(_, _, _)
\* the loop over the positions: the first price that cannot be fetched ends it
ValuePositions(positions, quotes, acc) ==
    IF positions = <<>> THEN Return(acc)
    ELSE LET position == Head(positions)
             current_price == get_current_price(quotes[position.ticker])
         IN  IF current_price.kind = "raise" THEN Raise("Exception")
             ELSE ValuePositions(
                      Tail(positions), quotes,
                      [total_value |-> acc.total_value
                                           + position.quantity * current_price.value.x,
                       total_cost_basis |-> acc.total_cost_basis
                                           + position.quantity * position.purchase_price,
                       positions_valued |-> acc.positions_valued + 1])

PortfolioValuation(pid, total_value, total_cost_basis, total_pnl, pct, count) ==
    [type |-> "PortfolioValuation", portfolio_id |-> pid,
     total_value |-> total_value, total_cost_basis |-> total_cost_basis,
     total_pnl |-> total_pnl, total_pnl_percentage |-> pct,
     positions_count |-> count]

\* get_portfolio_valuation from the positions on
ValuationOf(pid, positions, quotes) ==
    IF positions = <<>> THEN Return(PortfolioValuation(pid, 0, 0, 0, 0, 0))
    ELSE LET sums == ValuePositions(positions, quotes,
                         [total_value |-> 0, total_cost_basis |-> 0,
                          positions_valued |-> 0])
         IN  IF sums.kind = "raise" THEN sums
             ELSE LET total_pnl == sums.value.total_value - sums.value.total_cost_basis
                      pct == IF sums.value.total_cost_basis > 0
                             THEN RoundHalfEven(total_pnl * 10000,
                                                sums.value.total_cost_basis)
                             ELSE 0
                  IN  Return(PortfolioValuation(
                          pid, Round2(sums.value.total_value),
                          Round2(sums.value.total_cost_basis), Round2(total_pnl),
                          pct, sums.value.positions_valued))

RECURSIVE ValuePricedPositions(_, _, _)
\* the loop over the positions going on to the next position when a price
\* cannot be fetched
ValuePricedPositions(positions, quotes, acc) ==
    IF positions = <<>> THEN Return(acc)
    ELSE LET position == Head(positions)
             current_price == get_current_price(quotes[position.ticker])
         IN  IF current_price.kind = "raise"
             THEN ValuePricedPositions(Tail(positions), quotes, acc)
             ELSE ValuePricedPositions(
                      Tail(positions), quotes,
                      [total_value |-> acc.total_value
                                           + position.quantity * current_price.value.x,
                       total_cost_basis |-> acc.total_cost_basis
                                           + position.quantity * position.purchase_price,
                       positions_valued |-> acc.positions_valued + 1])

\* get_portfolio_valuation reading portfolio.positions and skipping the
\* positions without a price
valuation_skipping_unpriced(pid, quotes) ==
    IF pid \notin PortfolioIds THEN Raise("ValueError")
    ELSE LET sums == ValuePricedPositions(PositionsOf(pid), quotes,
                         [total_value |-> 0, total_cost_basis |-> 0,
                          positions_valued |-> 0])
         IN  Return(PortfolioValuation(
                 pid, Round2(sums.value.total_value),
                 Round2(sums.value.total_cost_basis),
                 Round2(sums.value.total_value - sums.value.total_cost_basis),
                 0, sums.value.positions_valued))

\* PortfolioService.get_portfolio_valuation
get_portfolio_valuation(pid, quotes) ==
    IF pid \notin PortfolioIds THEN Raise("ValueError")
    ELSE LET positions == get_positions_for_portfolio(pid)
         IN  IF positions.kind = "raise" THEN positions
             ELSE ValuationOf(pid, positions.value, quotes)

Snapshot(pid, value, timestamp) ==
    [portfolio_id |-> pid, value |-> value, timestamp |-> timestamp]

\* portfolio_repo.create_snapshot(portfolio_id=, value=, timestamp=): the method
\* takes no timestamp, the call raises before a row is added
create_snapshot(rows, pid, value) == [rows |-> rows, res |-> Raise("TypeError")]

\* self.db.rollback() of the handler: PortfolioService sets no attribute db
db_rollback == Raise("AttributeError")

\* create_snapshot_for_portfolio storing a snapshot of value 0 when the
\* valuation fails, and returning it
snapshot_despite_failure(pid, quotes, rows) ==
    IF get_portfolio_valuation(pid, quotes).kind = "raise"
    THEN [rows |-> rows \cup {Snapshot(pid, 0, 1)},
          res |-> Return([type |-> "PortfolioSnapshot"])]
    ELSE [rows |-> rows, res |-> Raise("TypeError")]

\* create_snapshot_for_portfolio keeping one snapshot per portfolio: the rows of
\* the portfolio are removed before the valuation is tried
snapshot_overwriting(pid, quotes, rows) ==
    [rows |-> {s \in rows : s.portfolio_id # pid}, res |-> Raise("AttributeError")]

\* PortfolioService.create_snapshot_for_portfolio: the table after the call and
\* what the caller gets
create_snapshot_for_portfolio(pid, quotes, rows) ==
    LET valuation == get_portfolio_valuation(pid, quotes)
        created == IF valuation.kind = "raise"
                   THEN [rows |-> rows, res |-> valuation]
                   ELSE create_snapshot(rows, pid, valuation.value.total_value \div 10)
    IN  IF created.res.kind = "raise"
        THEN [rows |-> created.rows,
              res |-> IF db_rollback.kind = "raise" THEN db_rollback
                      ELSE Raise("ValueError")]
        ELSE created

\* timestamps of snapshots, counted from current_month_start
current_month_start == 0

SnapshotTimes == {-1, 0, 1}

SnapshotValues == {0, 30000, 31000}

RECURSIVE SumValues(_)
\* func.sum(PortfolioSnapshot.value) over the joined rows
SumValues(rows) ==
    IF rows = {} THEN 0
    ELSE LET s == CHOOSE x \in rows : TRUE
         IN  s.value + SumValues(rows \ {s})

\* the rows joined to the subquery: per portfolio of the scope, the rows of
\* `rows` carrying that portfolio's greatest timestamp
LatestRows(portfolio_ids, rows) ==
    {s \in rows :
        /\ s.portfolio_id \in portfolio_ids
        /\ \A o \in rows :
               o.portfolio_id = s.portfolio_id => o.timestamp <= s.timestamp}

\* the scalar of select(func.sum(...)): NULL over no row
AumOf(portfolio_ids, rows) ==
    IF LatestRows(portfolio_ids, rows) = {} THEN NoneValue
    ELSE Number(SumValues(LatestRows(portfolio_ids, rows)))

\* select(Portfolio).join(Client) without the restriction to the user's clients
portfolios_unrestricted(user) == PortfolioIds

\* select(Portfolio).join(Client), restricted to the user's clients unless admin
PortfoliosOf(user) ==
    {pid \in PortfolioIds : IsAdmin(user) \/ OwnerOf(pid) = user}

DbFailures == {"none", "portfolios", "current_aum", "start_of_month_aum"}

\* the try block falling back on the current AUM when no snapshot lies at or
\* before the start of the month, which reports a growth of 0
monthly_growth_start_fallback(user, rows, failing) ==
    IF failing = "portfolios" THEN Raise("DBError")
    ELSE IF PortfoliosOf(user) = {} THEN Return(NoneValue)
    ELSE IF failing = "current_aum" THEN Raise("DBError")
    ELSE LET portfolio_ids == PortfoliosOf(user)
             current_aum == AumOf(portfolio_ids, rows)
             at_start == AumOf(portfolio_ids,
                               {s \in rows : s.timestamp <= 0})
             start_of_month_aum == IF at_start = NoneValue THEN current_aum
                                   ELSE at_start
         IN  IF current_aum = NoneValue \/ current_aum.x = 0 THEN Return(NoneValue)
             ELSE IF failing = "start_of_month_aum" THEN Raise("DBError")
             ELSE IF start_of_month_aum = NoneValue \/ start_of_month_aum.x = 0
             THEN Return(NoneValue)
             ELSE Return(Number(RoundHalfEven(
                      (current_aum.x - start_of_month_aum.x) * 10000,
                      start_of_month_aum.x)))

\* the body of the try block of _calculate_monthly_growth; `failing` names the
\* query whose self.db.exec raises
MonthlyGrowthBody(user, rows, failing) ==
    IF failing = "portfolios" THEN Raise("DBError")
    ELSE IF PortfoliosOf(user) = {} THEN Return(NoneValue)
    ELSE IF failing = "current_aum" THEN Raise("DBError")
    ELSE LET portfolio_ids == PortfoliosOf(user)
             current_aum == AumOf(portfolio_ids, rows)
             start_of_month_aum ==
                 AumOf(portfolio_ids,
                       {s \in rows : s.timestamp <= current_month_start})
         IN  IF current_aum = NoneValue \/ current_aum.x = 0 THEN Return(NoneValue)
             ELSE IF failing = "start_of_month_aum" THEN Raise("DBError")
             ELSE IF start_of_month_aum = NoneValue \/ start_of_month_aum.x = 0
             THEN Return(NoneValue)
             ELSE Return(Number(RoundHalfEven(
                      (current_aum.x - start_of_month_aum.x) * 10000,
                      start_of_month_aum.x)))

\* _calculate_monthly_growth without its except clause
monthly_growth_uncaught(user, rows, failing) == MonthlyGrowthBody(user, rows, failing)

\* DashboardService._calculate_monthly_growth: except Exception returns None
calculate_monthly_growth(user, rows, failing) ==
    IF MonthlyGrowthBody(user, rows, failing).kind = "raise"
    THEN Return(NoneValue)
    ELSE MonthlyGrowthBody(user, rows, failing)

Call(op, id, failing, res) == [op |-> op, id |-> id, failing |-> failing, res |-> res]

NoCall == Call("none", 0, "none", Return(NoneValue))

\* GET /portfolios/{id}/valuation reaching the service
Valuate(pid) ==
    /\ lastCall' = Call("valuate", pid, "none",
                        get_portfolio_valuation(pid, market))
    /\ UNCHANGED <<market, snapshots>>

\* create_snapshot_for_portfolio(portfolio_id)
Record(pid) ==
    LET done == create_snapshot_for_portfolio(pid, market, snapshots)
    IN  /\ snapshots' = done.rows
        /\ lastCall' = Call("record", pid, "none", done.res)
        /\ UNCHANGED market

\* the dashboard asks for the monthly growth of a user
MonthlyGrowth(user, failing) ==
    /\ lastCall' = Call("monthly_growth", user, failing,
                        calculate_monthly_growth(user, snapshots, failing))
    /\ UNCHANGED <<market, snapshots>>

\* the seeding scripts insert a row unless the portfolio has one at that time
SeedSnapshot(pid, value, timestamp) ==
    /\ Cardinality(snapshots) < MaxSnapshots
    /\ \A s \in snapshots : ~(s.portfolio_id = pid /\ s.timestamp = timestamp)
    /\ snapshots' = snapshots \cup {Snapshot(pid, value, timestamp)}
    /\ UNCHANGED <<market, lastCall>>

BacktestIdle ==
    /\ BacktestInit
    /\ priceStatus = [t \in Tickers |-> "ok"]
    /\ divStatus = [t \in Tickers |-> "ok"]

InitKpi ==
    /\ BacktestIdle
    /\ market \in [Tickers -> Quotes]
    /\ snapshots = {}
    /\ lastCall = NoCall

NextKpi ==
    \/ \E pid \in RequestedPortfolioIds : Valuate(pid) /\ UNCHANGED backtestVars
    \/ \E pid \in RequestedPortfolioIds : Record(pid) /\ UNCHANGED backtestVars
    \/ \E user \in Users, failing \in DbFailures :
           MonthlyGrowth(user, failing) /\ UNCHANGED backtestVars
    \/ \E pid \in PortfolioIds, value \in SnapshotValues, ts \in SnapshotTimes :
           SeedSnapshot(pid, value, ts) /\ UNCHANGED backtestVars

SpecKpi == InitKpi /\ [][NextKpi]_vars

Unpriced(pid) ==
    {i \in 1..Len(PositionsOf(pid)) :
        get_current_price(market[PositionsOf(pid)[i].ticker]).kind = "raise"}

RECURSIVE MarketValue(_)
\* the sum of quantity x current price over positions that all have a price
MarketValue(positions) ==
    IF positions = <<>> THEN 0
    ELSE Head(positions).quantity
             * get_current_price(market[Head(positions).ticker]).value.x
         + MarketValue(Tail(positions))

C9_FailedRecordWritesNothing ==
    [][(/\ lastCall' # lastCall
        /\ lastCall'.op = "record"
        /\ get_portfolio_valuation(lastCall'.id, market).kind = "raise")
           => /\ snapshots' = snapshots
              /\ lastCall'.res.kind = "raise"]_vars

\* record was called for an existing portfolio with a position without a price,
\* while the table held a snapshot: the call raised and the snapshot is there
C9_Witness ==
    /\ lastCall.op = "record"
    /\ lastCall.id = 1
    /\ Unpriced(1) # {}
    /\ lastCall.res.kind = "raise"
    /\ snapshots # {}

\* C10: monthly_growth returns to its caller in every case, also when a query
\* raises: with None or with a number.
C10_MonthlyGrowthNeverRaises ==
    lastCall.op = "monthly_growth"
        => /\ lastCall.res.kind = "return"
           /\ lastCall.res.value.type \in {"None", "float"}

\* the query of the start-of-month AUM raised after the current AUM was found to
\* be positive: the caller got None
C10_Witness ==
    /\ lastCall.op = "monthly_growth"
    /\ lastCall.failing = "start_of_month_aum"
    /\ MonthlyGrowthBody(lastCall.id, snapshots, lastCall.failing).kind = "raise"
    /\ lastCall.res = Return(NoneValue)

\* the snapshots of the portfolios a user sees
InScope(user, rows) == {s \in rows : s.portfolio_id \in PortfoliosOf(user)}

\* the last snapshot of a portfolio among the rows
LastSnapshot(pid, rows) ==
    CHOOSE s \in rows :
        /\ s.portfolio_id = pid
        /\ \A o \in rows : o.portfolio_id = pid => o.timestamp <= s.timestamp

RECURSIVE TotalOfLast(_, _)
\* the aggregate: the value of the last snapshot of each portfolio that has one
TotalOfLast(pids, rows) ==
    IF pids = {} THEN 0
    ELSE LET pid == CHOOSE x \in pids : TRUE
         IN  (IF \E s \in rows : s.portfolio_id = pid
              THEN LastSnapshot(pid, rows).value ELSE 0)
             + TotalOfLast(pids \ {pid}, rows)

AtMonthStart(rows) == {s \in rows : s.timestamp <= current_month_start}

CurrentTotal(user) == TotalOfLast(PortfoliosOf(user), snapshots)

StartTotal(user) == TotalOfLast(PortfoliosOf(user), AtMonthStart(snapshots))

MissingOrZero(user, rows) ==
    InScope(user, rows) = {} \/ TotalOfLast(PortfoliosOf(user), rows) = 0

\* C11: monthly_growth returns None when the current aggregate or the aggregate
\* at the start of the month is missing or zero; in particular when no portfolio
\* of the scope has a snapshot at or before the start of the month, whatever
\* snapshots it has later in the month.
C11_NoneWithoutAggregates ==
    [][(lastCall' # lastCall /\ lastCall'.op = "monthly_growth")
          => /\ (\/ MissingOrZero(lastCall'.id, snapshots)
                 \/ MissingOrZero(lastCall'.id, AtMonthStart(snapshots)))
                    => lastCall'.res = Return(NoneValue)
             /\ (\A s \in InScope(lastCall'.id, snapshots) :
                     s.timestamp > current_month_start)
                    => lastCall'.res = Return(NoneValue)]_vars

\* no query failed, the user's portfolio has a snapshot of positive value later
\* in the month and none at or before its start: the caller got None
C11_Witness ==
    /\ lastCall.op = "monthly_growth"
    /\ lastCall.failing = "none"
    /\ \E s \in InScope(lastCall.id, snapshots) :
           s.timestamp > current_month_start /\ s.value > 0
    /\ AtMonthStart(InScope(lastCall.id, snapshots)) = {}
    /\ lastCall.res = Return(NoneValue)

\* the valuation has nothing to fail on: the portfolio exists and the price of
\* each of its positions can be fetched
Valuable(pid) == pid \in PortfolioIds /\ Unpriced(pid) = {}

\* the total value of the portfolio at the current prices, in cents
TotalValue(pid) == Round2(MarketValue(PositionsOf(pid))) \div 10

\* C16: a call of record for a portfolio whose valuation succeeds adds exactly
\* one snapshot of that portfolio to the stored ones, its value the total value
\* of the valuation and its timestamp the current time (within the current
\* month), and returns that snapshot.
C16_RecordAppendsOneSnapshot ==
    [][(/\ lastCall' # lastCall
        /\ lastCall'.op = "record"
        /\ Valuable(lastCall'.id))
           => /\ lastCall'.res.kind = "return"
              /\ \E s \in snapshots' \ snapshots :
                     /\ snapshots' = snapshots \cup {s}
                     /\ s.portfolio_id = lastCall'.id
                     /\ s.value = TotalValue(lastCall'.id)
                     /\ s.timestamp >= current_month_start]_vars

\* C17: valuate of an existing portfolio without positions returns a valuation
\* with total value, cost basis, P&L, P&L percentage and positions count all
\* zero; it is a result, not an error.
C17_EmptyPortfolioValuesZero ==
    (/\ lastCall.op = "valuate"
     /\ lastCall.id \in PortfolioIds
     /\ PositionsOf(lastCall.id) = <<>>)
        => lastCall.res = Return(PortfolioValuation(lastCall.id, 0, 0, 0, 0, 0))

RECURSIVE CostBasis(_)
\* the sum of quantity x purchase price over the positions
CostBasis(positions) ==
    IF positions = <<>> THEN 0
    ELSE Head(positions).quantity * Head(positions).purchase_price
         + CostBasis(Tail(positions))

\* C21: valuate of a portfolio whose positions all have a price returns the
\* total value (sum of quantity x current price), the total cost (sum of
\* quantity x cost basis), the P&L (value - cost), the P&L percentage
\* (P&L / cost x 100, 0 when the cost is 0) and the number of positions.
C21_ValuationTotals ==
    (lastCall.op = "valuate" /\ Valuable(lastCall.id))
        => LET positions == PositionsOf(lastCall.id)
               value == MarketValue(positions)
               cost == CostBasis(positions)
           IN  /\ lastCall.res.kind = "return"
               /\ lastCall.res.value.total_value = Round2(value)
               /\ lastCall.res.value.total_cost_basis = Round2(cost)
               /\ lastCall.res.value.total_pnl = Round2(value - cost)
               /\ lastCall.res.value.total_pnl_percentage
                      = (IF cost = 0 THEN 0
                         ELSE RoundHalfEven((value - cost) * 10000, cost))
               /\ lastCall.res.value.positions_count = Len(positions)

(***************************************************************************)
(* SpecValidate: one request of any shape, on a healthy cache.             *)
(***************************************************************************)
InitValidate ==
    /\ BacktestInit
    /\ priceStatus \in [Tickers -> {"ok", "error", "empty"}]
    /\ divStatus \in [Tickers -> {"ok", "error"}]
    /\ KpiIdle

NextValidate ==
    \/ Arrive(1, BacktestRequest) /\ UNCHANGED kpiVars
    \/ LoopStep({"ok"}, {"ok"}) /\ UNCHANGED kpiVars

SpecValidate == InitValidate /\ [][NextValidate]_vars

\* the requests the validation is to reject
BadPeriod(request) == request.period \notin period_mapping

NoTickers(request) == request.composition = <<>> /\ request.benchmarks = <<>>

WeightsOffOne(request) == Abs(total_weight(request) - WeightUnit) > Tolerance

Rejectable(request) ==
    \/ BadPeriod(request)
    \/ NoTickers(request)
    \/ request.composition = <<>>
    \/ WeightsOffOne(request)

NoIoFor(r) ==
    /\ ~log[r].io
    /\ priceRes[r] = <<>>
    /\ divRes[r] = <<>>
    /\ \A k \in 1..Len(queue) :
           queue[k].r = r => queue[k].kind \notin {"price_task", "div_task"}

\* C2: a request with a period outside the enumeration, with no ticker at all,
\* with an empty composition or with weights off 1.0 by more than 0.001 is
\* rejected with a validation error, and from its arrival to the rejection no
\* cache read, cache write or provider fetch is issued or scheduled for it and
\* the cache is as it was.
C2_ValidationBeforeIO ==
    \A r \in Slots :
        (req[r] # NoRequest /\ Rejectable(req[r]))
            => /\ NoIoFor(r)
               /\ \A key \in CacheKeys : cache[key] = Absent
               /\ Served(r) => /\ outcome[r].status = "error"
                               /\ outcome[r].kind = "validation"

\* a request with a valid period and tickers whose weights sum to 1.002 has been
\* rejected, with the cache client connected
C2_Witness ==
    \E r \in Slots :
        /\ Served(r)
        /\ redisOn[r]
        /\ ~BadPeriod(req[r])
        /\ Len(req[r].composition) = 2
        /\ total_weight(req[r]) = WeightUnit + 2
        /\ outcome[r].status = "error"
        /\ outcome[r].kind = "validation"
        /\ outcome[r].detail.kind = "weights_sum"

\* the provider has a price series for every ticker of the request
ValidData(request) == \A t \in Range(all_tickers(request)) : priceStatus[t] = "ok"

\* C3: for a request with a valid period and a composition, the weight check
\* passes exactly when the sum is within 0.001 of 1.0; outside the band the
\* backtest raises the validation error carrying the sum, inside the band it
\* returns a response when the provider has valid data for all tickers.
C3_WeightBandDecides ==
    \A r \in Slots :
        (Served(r) /\ ~BadPeriod(req[r]) /\ req[r].composition # <<>>)
            => /\ WeightsOffOne(req[r])
                   => outcome[r] = Raised("validation",
                                          [kind |-> "weights_sum",
                                           got |-> total_weight(req[r])])
               /\ ~WeightsOffOne(req[r])
                   => /\ ~(outcome[r].status = "error"
                            /\ outcome[r].kind = "validation")
                      /\ ValidData(req[r]) => outcome[r].status = "ok"

WeightOutOfRange(request) ==
    \E i \in 1..Len(request.composition) :
        \/ request.composition[i].weight < 0
        \/ request.composition[i].weight > WeightUnit

\* C4: a request whose composition holds a weight below 0 or above 1 is rejected
\* with a validation error before any fetch is issued for it, also when its
\* weights sum to 1.0.
C4_WeightRangeRejected ==
    \A r \in Slots :
        (req[r] # NoRequest /\ WeightOutOfRange(req[r]))
            => /\ ~log[r].io
               /\ Served(r) => /\ outcome[r].status = "error"
                               /\ outcome[r].kind = "validation"

RECURSIVE PairReturn(_, _, _)
\* the sum over the (ticker, weight) pairs of weight x the ticker's percentage
\* change at position i of the index
PairReturn(table, composition, i) ==
    IF composition = <<>> THEN Rat(0, 1)
    ELSE RatAdd(RatMul(Rat(Head(composition).weight, WeightUnit),
                       pct_change(table, Head(composition).ticker, i)),
                PairReturn(table, Tail(composition), i))

RECURSIVE AppliedWeight(_, _)
\* the sum of the weights the loop over the tickers multiplies by
AppliedWeight(composition, tickers) ==
    IF tickers = <<>> THEN Rat(0, 1)
    ELSE RatAdd(weight_of(composition, Head(tickers)),
                AppliedWeight(composition, Tail(tickers)))

\* C25: for every accepted composition the portfolio's daily return on a date
\* is the sum over its (ticker, weight) pairs of weight x the ticker's
\* percentage change since the previous observation, 0 on the first date, so
\* the portfolio values returned compound exactly those returns; the weights
\* applied add up to the validated sum, also when a ticker is listed twice.
C25_WeightedDailyReturns ==
    \A r \in Slots :
        (/\ Served(r)
         /\ ValidationError(req[r]) = NoError
         /\ ValidData(req[r]))
            => /\ AppliedWeight(req[r].composition, portfolio_tickers(req[r]))
                      = Rat(total_weight(req[r]), WeightUnit)
               /\ outcome[r].status = "ok"
               /\ \A i \in 1..Len(outcome[r].data_points) :
                      outcome[r].data_points[i].portfolio_value
                          = calculate_cumulative_returns(
                                [k \in 1..Len(hist[r].index) |->
                                    PairReturn(hist[r], req[r].composition, k)],
                                100)[i]

(***************************************************************************)
(* SpecConcurrent: two requests in flight on the one event loop.           *)
(***************************************************************************)
ConcurrentRequests ==
    {q \in BacktestRequest :
        /\ q.period = "1mo"
        /\ q.composition \in {Comp1("A", 1000), Comp2("A", 500, "B", 500)}
        /\ q.benchmarks = <<>>}

InitConcurrent ==
    /\ BacktestInit
    /\ priceStatus \in [Tickers -> {"ok", "error"}]
    /\ divStatus = [t \in Tickers |-> "ok"]
    /\ KpiIdle

NextConcurrent ==
    \/ \E r \in Slots : Arrive(r, ConcurrentRequests) /\ UNCHANGED kpiVars
    \/ LoopStep({"ok", "raise"}, {"ok", "raise"}) /\ UNCHANGED kpiVars
    \/ \E r \in Slots : Deliver(r) /\ UNCHANGED kpiVars

SpecConcurrent == InitConcurrent /\ [][NextConcurrent]_vars

\* the wave a request is suspended on
Wave(r) ==
    IF pc[r] = "prices" THEN priceRes[r]
    ELSE IF pc[r] = "dividends" THEN divRes[r]
    ELSE <<>>

TaskStates(r) == {Wave(r)[i].ret.kind : i \in 1..Len(Wave(r))}

Waking(r) ==
    /\ queue # <<>>
    /\ Head(queue).r = r
    /\ Head(queue).kind \in {"wake_prices", "wake_divs"}

\* C7: the outer future of a wave is completed only when no task of the wave
\* is still to run, with a result only when every task returned one, and with
\* an exception as soon as the callback of a failed task has run; the request is
\* resumed only on a completed wave whose every task has finished, and a
\* response is built only from the results of all the tickers fetched.
C7_GatherSemantics ==
    \A r \in Slots :
        /\ (pc[r] \in {"prices", "dividends"} /\ outer[r].state # "pending")
               => "pending" \notin TaskStates(r)
        /\ (pc[r] \in {"prices", "dividends"} /\ outer[r].state = "result")
               => /\ TaskStates(r) = {"ok"}
                  /\ outer[r].nfinished = Len(Wave(r))
        /\ Waking(r)
               => /\ outer[r].state \in {"result", "exception"}
                  /\ "pending" \notin TaskStates(r)
                  /\ ("exc" \in TaskStates(r)) <=> (outer[r].state = "exception")
        /\ outcome[r].status = "ok"
               => /\ Range(hist[r].columns) = FetchSet(r)
                  /\ Len(outcome[r].data_points) = Len(hist[r].index)

\* two requests are in flight; one is resumed on a wave of two tasks of which
\* the first returned and the second raised
C7_Witness ==
    \E r, q \in Slots :
        /\ r # q
        /\ pc[q] \in {"prices", "dividends"}
        /\ Waking(r)
        /\ Len(Wave(r)) = 2
        /\ Wave(r)[1].ret.kind = "ok"
        /\ Wave(r)[2].ret.kind = "exc"
        /\ outer[r].state = "exception"

\* C26: every value stored under the prices key of (ticker, period) is the
\* serialization of a non-empty series the provider returned for that ticker
\* and period, in every interleaving of two backtests and also when the
\* backtest that wrote it ends with the error of another ticker; a provider
\* fetch that fails writes no entry.
C26_PriceEntriesSound ==
    \A key \in CacheKeys :
        (key[1] = "prices" /\ cache[key] # Absent)
            => /\ priceStatus[key[2]] = "ok"
               /\ HistoryOf(key[2], key[3]) # <<>>
               /\ cache[key] = Serialize(HistoryOf(key[2], key[3]))

\* the only request so far, on A and B with a working cache, failed on B's
\* fetch; the entry its task wrote for A is stored, nothing is stored for B
C26_Witness ==
    /\ Served(1)
    /\ pc[2] = "idle"
    /\ redisOn[1]
    /\ FetchSet(1) = {"A", "B"}
    /\ outcome[1].status = "error"
    /\ outcome[1].kind = "data"
    /\ priceStatus["B"] = "error"
    /\ cache[generate_cache_key("A", req[1].period, "prices")]
           = Serialize(HistoryOf("A", req[1].period))
    /\ cache[generate_cache_key("B", req[1].period, "prices")] = Absent

(***************************************************************************)
(* SpecIndex: one request after another on a provider whose series may     *)
(* come latest first or labelled with date strings.                        *)
(***************************************************************************)
IndexRequests ==
    {q \in BacktestRequest :
        /\ q.period = "1mo"
        /\ q.composition \in {Comp1("A", 1000), Comp2("A", 500, "B", 500)}
        /\ q.benchmarks = <<>>}

InitIndex ==
    /\ BacktestInit
    /\ priceStatus \in [Tickers -> {"ok", "unordered", "text"}]
    /\ divStatus = [t \in Tickers |-> "ok"]
    /\ KpiIdle

NextIndex ==
    \/ Arrive(1, IndexRequests) /\ UNCHANGED kpiVars
    \/ LoopStep({"ok"}, {"ok"}) /\ UNCHANGED kpiVars
    \/ Deliver(1) /\ UNCHANGED kpiVars

SpecIndex == InitIndex /\ [][NextIndex]_vars

\* each label later than the one before it
StrictlyChronological(labels) ==
    \A i \in 1..(Len(labels) - 1) : labels[i].d < labels[i + 1].d

\* C13: a backtest whose combined price table comes with an index that is not
\* of date type, or not in strictly chronological order, ends with an error; it
\* never converts or re-sorts the index and goes on to a response.
C13_BadIndexRaises ==
    \A r \in Slots :
        (/\ Served(r)
         /\ hist[r].raw # <<>>
         /\ \/ ~IsDatetimeIndex(hist[r].raw)
            \/ ~StrictlyChronological(hist[r].raw))
            => outcome[r].status = "error"

(***************************************************************************)
(* SpecShared: two requests for the same ticker and period in flight on    *)
(* the one event loop, a cache whose reads may fail, and a provider that   *)
(* revises its data between two downloads.  No entry expires.              *)
(***************************************************************************)
SharedRequests ==
    {q \in BacktestRequest :
        /\ q.period = "1mo"
        /\ q.composition = Comp1("A", 1000)
        /\ q.benchmarks \in {<<>>, <<"B">>}}

\* the provider's data of a ticker changes
Revise(t) ==
    /\ priceStatus[t] = "ok"
    /\ priceStatus' = [priceStatus EXCEPT ![t] = "revised"]
    /\ UNCHANGED <<queue, req, pc, redisOn, priceRes, divRes, outer, hist,
                   outcome, log, cache, divStatus>>

InitShared ==
    /\ BacktestInit
    /\ priceStatus = [t \in Tickers |-> "ok"]
    /\ divStatus = [t \in Tickers |-> "ok"]
    /\ KpiIdle

NextShared ==
    \/ \E r \in Slots : Arrive(r, SharedRequests) /\ UNCHANGED kpiVars
    \/ LoopStep({"ok", "raise"}, {"ok"}) /\ UNCHANGED kpiVars
    \/ \E r \in Slots : Deliver(r) /\ UNCHANGED kpiVars
    \/ \E t \in Tickers : Revise(t) /\ UNCHANGED kpiVars

SpecShared == InitShared /\ [][NextShared]_vars

\* C14: once a value is stored under the key of (type, ticker, period), no step
\* of any backtest changes what is stored under that key while the entry has
\* not expired, however two backtests on the same ticker and period interleave.
C14_CacheEntriesImmutable ==
    [][\A key \in CacheKeys : cache[key] # Absent => cache'[key] = cache[key]]_vars

(***************************************************************************)
(* SpecMetrics: the cumulative series and the metrics of perform_backtest  *)
(* on series of portfolio daily returns.  The first return of a series is  *)
(* 0 (pct_change().fillna(0)); a daily return is above -1 as long as       *)
(* prices are positive.                                                    *)
(***************************************************************************)
MaxDays == 4          \* longest series of daily returns

ReturnChoices == {Rat(-1, 4), Rat(-1, 10), Rat(1, 10), Rat(1, 5), Rat(2, 9)}

DailyReturns ==
    {<<Rat(0, 1)>> \o tail : tail \in SeqsUpTo(ReturnChoices, MaxDays - 1)}

\* perform_backtest from the daily returns of the portfolio to the cumulative
\* series of the data points and the metrics
Analyse(daily_returns) ==
    /\ lastCall' = Call("analyse", daily_returns, "none",
                        [cumulative |-> calculate_cumulative_returns(daily_returns, 100),
                         metrics |-> calculate_performance_metrics_corrected(
                                         daily_returns)])
    /\ UNCHANGED <<market, snapshots>>

InitMetrics ==
    /\ BacktestIdle
    /\ market = <<>>
    /\ snapshots = {}
    /\ lastCall = NoCall

NextMetrics ==
    \E daily_returns \in DailyReturns : Analyse(daily_returns) /\ UNCHANGED backtestVars

SpecMetrics == InitMetrics /\ [][NextMetrics]_vars

Analysed == lastCall.op = "analyse" /\ lastCall.res.metrics.status = "ok"

\* the declines from a value of the series to the same or a later one, each as
\* a fraction of the earlier value
PeakToTrough(cumulative) ==
    {RatSub(RatDiv(cumulative[p[2]], cumulative[p[1]]), Rat(1, 1)) :
        p \in {q \in (1..Len(cumulative)) \X (1..Len(cumulative)) : q[1] <= q[2]}}

\* C18: max_drawdown is the deepest decline of the 1.0-based cumulative series
\* from its running maximum, as a fraction of that maximum: it is the least of
\* the declines from a value to a later one, it is never above 0, and the
\* cumulative series 1.0, 1.2, 0.9, 1.1 gives -0.25.
C18_MaxDrawdown ==
    Analysed
        => LET md == lastCall.res.metrics.max_drawdown
               declines == PeakToTrough(lastCall.res.cumulative)
           IN  /\ md \in declines
               /\ \A x \in declines : RatLE(md, x)
               /\ RatLE(md, Rat(0, 1))
               /\ lastCall.res.cumulative
                      = <<Rat(100, 1), Rat(120, 1), Rat(90, 1), Rat(110, 1)>>
                  => md = Rat(-1, 4)

\* the series of the example was analysed: a rise to 1.2, a fall to 0.9 and a
\* recovery to 1.1, with the drawdown of a quarter of the peak
C18_Witness ==
    /\ Analysed
    /\ lastCall.id = <<Rat(0, 1), Rat(1, 5), Rat(-1, 4), Rat(2, 9)>>
    /\ lastCall.res.metrics.max_drawdown = Rat(-1, 4)

RECURSIVE Compounded(_, _)
\* the growth of 1 over the first k daily returns
Compounded(daily_returns, k) ==
    IF k = 0 THEN Rat(1, 1)
    ELSE RatMul(Compounded(daily_returns, k - 1),
                RatAdd(Rat(1, 1), daily_returns[k]))

\* C20: total_return is the product of (1 + daily return) over the window,
\* minus 1; the value of the last data point, on the cumulative series started
\* at 100, is 100 x (1 + total_return), which is the end_value reported.
C20_TotalReturnCompounds ==
    Analysed
        => LET metrics == lastCall.res.metrics
               cumulative == lastCall.res.cumulative
           IN  /\ RatAdd(metrics.total_return, Rat(1, 1))
                      = Compounded(lastCall.id, Len(lastCall.id))
               /\ cumulative[Len(cumulative)]
                      = RatMul(Rat(100, 1), RatAdd(Rat(1, 1), metrics.total_return))
               /\ cumulative[Len(cumulative)] = metrics.end_value

\* a series with a gain and two losses was analysed: 1.1 x 0.9 x 0.75 - 1
C20_Witness ==
    /\ Analysed
    /\ lastCall.id = <<Rat(0, 1), Rat(1, 10), Rat(-1, 10), Rat(-1, 4)>>
    /\ lastCall.res.metrics.total_return = Rat(-103, 400)

(***************************************************************************)
(* The monthly growth over a month of snapshots: a start-of-month row and  *)
(* a recent row per portfolio, as the dashboard test lays them down, in    *)
(* whole currency units.                                                   *)
(***************************************************************************)
StartValues == {0, 50000, 100000}

CurrentValues == {0, 52000, 105000, 105750}

\* recent_date = now - timedelta(days=2), counted from current_month_start:
\* later in the month, or still in the previous month on its first two days
RecentTimes == {-1, 1}

NoPlan == [start |-> -1, current |-> -1]

MonthPlans == [start : StartValues, current : CurrentValues]

\* snapshot_data: per portfolio its two values, or no entry
SnapshotData == [PortfolioIds -> MonthPlans \cup {NoPlan}] \ {[pid \in PortfolioIds |-> NoPlan]}

\* the start-of-month rows, then the recent rows, then session.commit()
SeedMonth(snapshot_data, recent_date) ==
    /\ snapshots = {}
    /\ snapshots' =
           {Snapshot(pid, snapshot_data[pid].start, current_month_start) :
               pid \in {x \in PortfolioIds : snapshot_data[x] # NoPlan}}
           \cup {Snapshot(pid, snapshot_data[pid].current, recent_date) :
               pid \in {x \in PortfolioIds : snapshot_data[x] # NoPlan}}
    /\ UNCHANGED <<market, lastCall>>

InitGrowth ==
    /\ BacktestIdle
    /\ market = [t \in Tickers |-> Quote("close", 110505)]
    /\ snapshots = {}
    /\ lastCall = NoCall

NextGrowth ==
    \/ \E snapshot_data \in SnapshotData, recent_date \in RecentTimes :
           SeedMonth(snapshot_data, recent_date) /\ UNCHANGED backtestVars
    \/ \E user \in Users, failing \in DbFailures :
           MonthlyGrowth(user, failing) /\ UNCHANGED backtestVars

SpecGrowth == InitGrowth /\ [][NextGrowth]_vars

\* g ten-thousandths is current/start - 1 rounded to 4 decimal places: no other
\* multiple of a ten-thousandth is nearer to the quotient
RoundedGrowth(g, current, start) ==
    2 * Abs(g * start - (current - start) * 10000) <= start

\* C19: when the current aggregate and the aggregate at the start of the month
\* are both present and non-zero (and no query fails), monthly_growth returns
\* current_total/start_total - 1 rounded to 4 decimal places: 100,000 to
\* 105,750 gives 0.0575 and 150,000 to 157,000 gives 0.0467.
C19_GrowthRoundedTo4Places ==
    [][(/\ lastCall' # lastCall
        /\ lastCall'.op = "monthly_growth"
        /\ lastCall'.failing = "none"
        /\ ~MissingOrZero(lastCall'.id, snapshots)
        /\ ~MissingOrZero(lastCall'.id, AtMonthStart(snapshots)))
          => /\ lastCall'.res.kind = "return"
             /\ lastCall'.res.value.type = "float"
             /\ RoundedGrowth(lastCall'.res.value.x,
                              CurrentTotal(lastCall'.id), StartTotal(lastCall'.id))
             /\ (StartTotal(lastCall'.id) = 100000 /\ CurrentTotal(lastCall'.id) = 105750)
                    => lastCall'.res.value.x = 575
             /\ (StartTotal(lastCall'.id) = 150000 /\ CurrentTotal(lastCall'.id) = 157000)
                    => lastCall'.res.value.x = 467]_vars

\* the administrator asked with two portfolios that began the month at 100,000
\* and 50,000 and stand at 105,000 and 52,000: the growth returned is 0.0467
C19_Witness ==
    /\ lastCall.op = "monthly_growth"
    /\ lastCall.failing = "none"
    /\ StartTotal(lastCall.id) = 150000
    /\ CurrentTotal(lastCall.id) = 157000
    /\ lastCall.res = Return(Number(467))

(***************************************************************************)
(* The snapshot table under every operation that reads or writes it:       *)
(* valuation, recording, history of a portfolio, AUM history and monthly   *)
(* growth, next to the seeding scripts.                                    *)
(***************************************************************************)
RECURSIVE NewestFirst(_)
\* order_by(PortfolioSnapshot.timestamp.desc())
NewestFirst(rows) ==
    IF rows = {} THEN <<>>
    ELSE LET newest == CHOOSE s \in rows : \A o \in rows : o.timestamp <= s.timestamp
         IN  <<newest>> \o NewestFirst(rows \ {newest})

Limits == {1, 100}

\* PortfolioRepository.get_snapshots_for_portfolio
get_snapshots_for_portfolio(pid, limit, rows) ==
    LET all == NewestFirst({s \in rows : s.portfolio_id = pid})
    IN  SubSeq(all, 1, IF Len(all) < limit THEN Len(all) ELSE limit)

\* the current time, counted in days from current_month_start
Now == 1

AumDays == {1, 2}

RECURSIVE OldestFirst(_)
\* order_by(func.date(PortfolioSnapshot.timestamp))
OldestFirst(dates) ==
    IF dates = {} THEN <<>>
    ELSE LET oldest == CHOOSE d \in dates : \A o \in dates : d <= o
         IN  <<oldest>> \o OldestFirst(dates \ {oldest})

\* PortfolioRepository.get_aum_history: per date of the window the sum of the
\* values of the snapshots, of the advisor's clients when advisor_id is given
repo_get_aum_history(days, advisor_id, rows) ==
    LET start_date == Now - days
        selected == {s \in rows :
                        /\ s.timestamp >= start_date
                        /\ advisor_id = 0 \/ OwnerOf(s.portfolio_id) = advisor_id}
        dates == OldestFirst({s.timestamp : s \in selected})
    IN  [i \in 1..Len(dates) |->
            [date |-> dates[i],
             value |-> SumValues({s \in selected : s.timestamp = dates[i]})]]

\* DashboardService.get_aum_history: advisor_id is None (0 here) for the
\* administrator; except Exception returns the empty list
get_aum_history(user, days, rows, failing) ==
    IF failing # "none" THEN Return(<<>>)
    ELSE Return(repo_get_aum_history(days, IF IsAdmin(user) THEN 0 ELSE user, rows))

\* a call with a second argument
CallWith(op, id, arg, failing, res) ==
    [op |-> op, id |-> id, arg |-> arg, failing |-> failing, res |-> res]

\* history(portfolio_id, limit)
History(pid, limit) ==
    /\ lastCall' = CallWith("history", pid, limit, "none",
                            Return(get_snapshots_for_portfolio(pid, limit, snapshots)))
    /\ UNCHANGED <<market, snapshots>>

\* aum_history(days) for a user
AumHistory(user, days, failing) ==
    /\ lastCall' = CallWith("aum_history", user, days, failing,
                            get_aum_history(user, days, snapshots, failing))
    /\ UNCHANGED <<market, snapshots>>

Seeded ==
    \E pid \in PortfolioIds, value \in SnapshotValues, ts \in SnapshotTimes :
        SeedSnapshot(pid, value, ts)

NextSnapshots ==
    \/ \E pid \in RequestedPortfolioIds : Valuate(pid) /\ UNCHANGED backtestVars
    \/ \E pid \in RequestedPortfolioIds : Record(pid) /\ UNCHANGED backtestVars
    \/ \E pid \in RequestedPortfolioIds, limit \in Limits :
           History(pid, limit) /\ UNCHANGED backtestVars
    \/ \E user \in Users, days \in AumDays, failing \in {"none", "query"} :
           AumHistory(user, days, failing) /\ UNCHANGED backtestVars
    \/ \E user \in Users, failing \in DbFailures :
           MonthlyGrowth(user, failing) /\ UNCHANGED backtestVars
    \/ Seeded /\ UNCHANGED backtestVars

\* an empty table, and a provider with a price for every ticker
InitSnapshots ==
    /\ BacktestIdle
    /\ market = [t \in Tickers |-> Quote("close", 110505)]
    /\ snapshots = {}
    /\ lastCall = NoCall

SpecSnapshots == InitSnapshots /\ [][NextSnapshots]_vars

\* C22: across valuate, record, history, aum_history and monthly_growth calls
\* no stored snapshot is modified or deleted: each call leaves every stored
\* snapshot in place, and the set of snapshots changes only by a record call
\* that succeeds.
C22_SnapshotsAppendOnly ==
    [][~Seeded
          => /\ snapshots \subseteq snapshots'
             /\ snapshots' # snapshots
                    => lastCall'.op = "record" /\ lastCall'.res.kind = "return"]_vars

\* snapshots were stored, then record was called for a portfolio that has one
\* and then its history was read: the history still shows every stored row
C22_Witness ==
    /\ lastCall.op = "history"
    /\ lastCall.id = 1
    /\ lastCall.arg = 100
    /\ Cardinality(snapshots) = MaxSnapshots
    /\ \A s \in snapshots : s.portfolio_id = 1
    /\ Len(lastCall.res.value) = MaxSnapshots

\* the portfolios of the user's scope whose latest snapshot is summed in the
\* aggregate over the rows
Counted(user, rows) == {s.portfolio_id : s \in LatestRows(PortfoliosOf(user), rows)}

\* C28: the two aggregates monthly_growth compares range over the same
\* portfolios: whenever a number is returned, each portfolio counted in the
\* current aggregate is counted in the start-of-month aggregate too, so a
\* portfolio first recorded after the month start does not move the figure.
C28_SamePortfoliosBothSides ==
    [][(/\ lastCall' # lastCall
        /\ lastCall'.op = "monthly_growth"
        /\ lastCall'.res.kind = "return"
        /\ lastCall'.res.value.type = "float")
          => /\ Counted(lastCall'.id, snapshots)
                    = Counted(lastCall'.id, AtMonthStart(snapshots))
             /\ lastCall'.res
                    = calculate_monthly_growth(
                          lastCall'.id,
                          {s \in snapshots :
                              s.portfolio_id \in Counted(lastCall'.id,
                                                         AtMonthStart(snapshots))},
                          "none")]_vars

(***************************************************************************)
(* The monthly growth over a table written row by row: portfolio_snapshots *)
(* has a primary key id and no uniqueness constraint on (portfolio_id,     *)
(* timestamp), so two rows of a portfolio can carry the same timestamp.    *)
(***************************************************************************)
MaxRows == 3          \* rows of portfolio_snapshots written row by row

RowValues == {30000, 31000}

RowTimes == {0, 1}

\* session.add(PortfolioSnapshot(portfolio_id=, value=, timestamp=)) and
\* session.commit(): the row gets the next id
InsertSnapshot(pid, value, timestamp) ==
    /\ Cardinality(snapshots) < MaxRows
    /\ snapshots' = snapshots \cup
           {[id |-> Cardinality(snapshots) + 1, portfolio_id |-> pid,
             value |-> value, timestamp |-> timestamp]}
    /\ UNCHANGED <<market, lastCall>>

InitRows ==
    /\ BacktestIdle
    /\ market = [t \in Tickers |-> Quote("close", 110505)]
    /\ snapshots = {}
    /\ lastCall = NoCall

NextRows ==
    \/ \E pid \in PortfolioIds, value \in RowValues, ts \in RowTimes :
           InsertSnapshot(pid, value, ts) /\ UNCHANGED backtestVars
    \/ \E user \in Users, failing \in DbFailures :
           MonthlyGrowth(user, failing) /\ UNCHANGED backtestVars

SpecRows == InitRows /\ [][NextRows]_vars

\* the portfolios of the set that have a row
WithRows(pids, rows) == {pid \in pids : \E s \in rows : s.portfolio_id = pid}

\* the ways of taking one latest row of each portfolio that has a row
Picks(pids, rows) ==
    {f \in [WithRows(pids, rows) -> rows] :
        \A pid \in WithRows(pids, rows) :
            /\ f[pid].portfolio_id = pid
            /\ \A o \in rows : o.portfolio_id = pid => o.timestamp <= f[pid].timestamp}

RECURSIVE SumPicked(_, _)
SumPicked(f, pids) ==
    IF pids = {} THEN 0
    ELSE LET pid == CHOOSE x \in pids : TRUE
         IN  f[pid].value + SumPicked(f, pids \ {pid})

\* the aggregates that count one latest row per portfolio; None over no row
OnePerPortfolio(pids, rows) ==
    IF WithRows(pids, rows) = {} THEN {NoneValue}
    ELSE {Number(SumPicked(f, WithRows(pids, rows))) : f \in Picks(pids, rows)}

\* what monthly_growth makes of two aggregates
GrowthFrom(current, start) ==
    IF current = NoneValue \/ start = NoneValue THEN NoneValue
    ELSE IF current.x = 0 \/ start.x = 0 THEN NoneValue
    ELSE Number(RoundHalfEven((current.x - start.x) * 10000, start.x))

\* C24: the current aggregate of monthly_growth is the sum over the portfolios
\* in scope of the value of the portfolio's latest snapshot, the start
\* aggregate the same over the snapshots at or before the first day of the
\* month; each portfolio contributes the value of exactly one snapshot, also
\* when several of its snapshots share a timestamp.
C24_OneSnapshotPerPortfolio ==
    [][(/\ lastCall' # lastCall
        /\ lastCall'.op = "monthly_growth"
        /\ lastCall'.failing = "none")
          => \E current \in OnePerPortfolio(PortfoliosOf(lastCall'.id), snapshots),
                start \in OnePerPortfolio(PortfoliosOf(lastCall'.id),
                                          AtMonthStart(snapshots)) :
                 lastCall'.res = Return(GrowthFrom(current, start))]_vars

(***************************************************************************)
(* The scope of the dashboard figures, under SpecSnapshots.                *)
(***************************************************************************)
\* the snapshots of the portfolios whose client the user owns
OwnRows(user, rows) == {s \in rows : OwnerOf(s.portfolio_id) = user}

\* the result of a monthly_growth or aum_history call, had the table held rows
ResultOn(call, rows) ==
    IF call.op = "monthly_growth"
    THEN calculate_monthly_growth(call.id, rows, call.failing)
    ELSE get_aum_history(call.id, call.arg, rows, call.failing)

\* the tables that differ from rows by one more snapshot of a portfolio of
\* another advisor, or by another value in such a snapshot
ElsewhereChanged(user, rows) ==
    {rows \cup {Snapshot(pid, value, ts)} :
        pid \in {x \in PortfolioIds : OwnerOf(x) # user},
        value \in SnapshotValues, ts \in SnapshotTimes}
    \cup {(rows \ {s}) \cup {[s EXCEPT !.value = value]} :
        s \in rows \ OwnRows(user, rows), value \in SnapshotValues}

\* C29: for a user who is not the administrator the results of monthly_growth
\* and aum_history depend only on the snapshots of the portfolios of the
\* user's own clients: one more snapshot of another advisor's portfolio, or
\* another value in one, leaves the result as it is; the administrator's
\* result ranges over the snapshots of all portfolios.
C29_ScopeNonInterference ==
    [][(/\ lastCall' # lastCall
        /\ lastCall'.op \in {"monthly_growth", "aum_history"})
          => /\ ~IsAdmin(lastCall'.id)
                    => /\ lastCall'.res
                              = ResultOn(lastCall', OwnRows(lastCall'.id, snapshots))
                       /\ \A rows \in ElsewhereChanged(lastCall'.id, snapshots) :
                              lastCall'.res = ResultOn(lastCall', rows)
             /\ (IsAdmin(lastCall'.id) /\ lastCall'.failing = "none")
                    => IF lastCall'.op = "monthly_growth"
                       THEN lastCall'.res
                                = Return(GrowthFrom(
                                      AumOf(PortfolioIds, snapshots),
                                      AumOf(PortfolioIds, AtMonthStart(snapshots))))
                       ELSE /\ {lastCall'.res.value[i].date :
                                   i \in 1..Len(lastCall'.res.value)}
                                  = {s.timestamp :
                                        s \in {x \in snapshots :
                                                  x.timestamp >= Now - lastCall'.arg}}
                            /\ \A i \in 1..Len(lastCall'.res.value) :
                                   lastCall'.res.value[i].value
                                       = SumValues({s \in snapshots :
                                             s.timestamp
                                                 = lastCall'.res.value[i].date})]_vars

\* advisor 2 asked for the AUM history while the table held a snapshot of an
\* own portfolio and one of another advisor's portfolio of the same day: the
\* one point returned carries the value of the own snapshot
C29_Witness ==
    /\ lastCall.op = "aum_history"
    /\ lastCall.id = 2
    /\ lastCall.failing = "none"
    /\ snapshots = {Snapshot(1, 30000, 1), Snapshot(2, 31000, 1)}
    /\ lastCall.res = Return(<<[date |-> 1, value |-> 30000]>>)

(***************************************************************************)
(* SpecShort: one request after another on a provider whose series may     *)
(* hold a single day, so that the tickers of a request share two days or   *)
(* more, one day, or none.                                                 *)
(***************************************************************************)
InitShort ==
    /\ BacktestInit
    /\ priceStatus \in [Tickers -> {"ok", "short", "halted"}]
    /\ divStatus = [t \in Tickers |-> "ok"]
    /\ KpiIdle

NextShort ==
    \/ Arrive(1, MainRequests) /\ UNCHANGED kpiVars
    \/ LoopStep({"ok"}, {"ok"}) /\ UNCHANGED kpiVars
    \/ Deliver(1) /\ UNCHANGED kpiVars

SpecShort == InitShort /\ [][NextShort]_vars

\* the days on which the provider has a price for the ticker of a request
PricedDays(r, ticker) ==
    {x.t.d : x \in Range(DownloadOf(ticker, req[r].period, priceStatus[ticker]))}

\* the dates of the aligned table: the days every fetched ticker has a price on
AlignedDates(r) ==
    {d \in UNION {PricedDays(r, t) : t \in FetchSet(r)} :
        \A t \in FetchSet(r) : d \in PricedDays(r, t)}

====
